---- MODULE Spec2Model ----
(***************************************************************************)
(* Chat orchestration core of the AI companion backend: provider registry  *)
(* (app/services/llm_service.py), context store                           *)
(* (app/services/conversation_context.py), persona selection               *)
(* (app/services/character.py, app/services/redis.py), the orchestrator    *)
(* (app/services/chat_service.py) and the streaming route                  *)
(* (app/routes/chat.py).                                                   *)
(*                                                                         *)
(* One action is the code a handler runs between two suspension points     *)
(* (await / yield).  Outcomes of the external collaborators (database,     *)
(* redis, LLM backends) are nondeterministic choices.                      *)
(***************************************************************************)
EXTENDS Integers, Sequences, FiniteSets, TLC

VARIABLES
    \* ---- provider registry (LLMService) ----
    clients,            \* names with an initialised client, registration order
    current_provider,   \* LLMService._current_provider
    fallback_provider,  \* LLMService._fallback_provider ("None" when unset)
    gap,                \* a get_available_provider call in progress
    probes,             \* test_connection calls of that call, in order
    switched,           \* result of the last switch_provider call
    \* ---- durable storage and redis ----
    conversations,      \* rows of table conversations, row i has id i
    messages,           \* rows of table messages in insertion order
    cache,              \* redis keys set by set_cache, key -> cached value
    last,               \* what the last finished store operation returned
    \* ---- concurrent requests ----
    proc,               \* per request task: where it is in its handler
    \* ---- persona selection ----
    user_character,     \* redis key user:{id}:character, 0 when not set
    answer,             \* what the last persona operation returned
    \* ---- one send-message request ----
    run,                \* locals of process_message and _generate_ai_response
    events,             \* what process_message has yielded so far
    wire,               \* what the streaming route has sent to the client
    requests,           \* completion requests _generate_ai_response issued
    previous,           \* the request handled before this one, and how many were
    \* ---- the event-stream transport on its own ----
    clock,              \* the time of the event loop, in seconds
    sse,                \* locals of an sse_generator and what it has sent when
    \* ---- the prompt builder on its own ----
    prompt,             \* arguments and result of a build_messages call
    \* ---- the redis selection and the persona listing on their own ----
    journal             \* the calls made on a service on its own, and their results

llm_vars == <<clients, current_provider, fallback_provider, gap, probes, switched>>

store_vars == <<conversations, messages, cache, last>>

persona_vars == <<user_character, answer>>

run_vars == <<run, events, wire, requests, previous>>

aside_vars == <<clock, sse, prompt, journal>>

not_llm_vars == <<store_vars, proc, persona_vars, run_vars, aside_vars>>

not_store_vars == <<llm_vars, proc, persona_vars, run_vars, aside_vars>>

not_race_vars == <<llm_vars, persona_vars, run_vars, aside_vars>>

vars == <<clients, current_provider, fallback_provider, gap, probes, switched,
          conversations, messages, cache, last, proc,
          user_character, answer, run, events, wire, requests, previous,
          clock, sse, prompt, journal>>

None == "None"

(***************************************************************************)
(* Provider registry                                                       *)
(***************************************************************************)

\* settings.llm.providers: the registered providers, in registration order
Registered == <<"groq", "openai">>

\* names a deployment can put in LLM_PRIMARY_PROVIDER / LLM_FALLBACK_PROVIDER
\* or pass to switch_provider: the registered ones and one that is not
ProviderNames == {"groq", "openai", "other"}

RECURSIVE SubSeqs(_)
\* the subsequences of s, each in the order of s
SubSeqs(s) ==
    IF s = <<>> THEN {<<>>}
    ELSE LET rest == SubSeqs(Tail(s))
         IN  rest \cup {<<Head(s)>> \o r : r \in rest}

Range(s) == {s[i] : i \in 1..Len(s)}

\* LLMService._initialize_providers: a client for every registered provider
\* that has an api key; primary and fallback come from the settings as given
InitProviders ==
    /\ clients \in SubSeqs(Registered)
    /\ current_provider \in ProviderNames
    /\ fallback_provider \in ProviderNames \cup {None}

\* LLMService.get_client: the name whose client is handed out, or
\* "ValueError" when no provider has a client
get_client(provider) ==
    LET target_provider == IF provider = None THEN current_provider ELSE provider
    IN  IF target_provider \in Range(clients) THEN target_provider
        ELSE IF clients = <<>> THEN "ValueError"
        ELSE clients[1]

GapIdle == [pc |-> "idle", target |-> None, i |-> 0, result |-> None, caller |-> None]

\* test_connection(provider) has been called and is awaiting the backend
BeginProbe(at, provider, i) ==
    gap' = [gap EXCEPT !.pc = at, !.target = provider, !.i = i]

\* the outcomes a pending test_connection can have: False when get_client
\* raises, otherwise whatever the backend answers
ProbeOutcomes == IF get_client(gap.target) = "ValueError" THEN {FALSE} ELSE BOOLEAN

LogProbe(ok) ==
    probes' = Append(probes, [name |-> gap.target, client |-> get_client(gap.target), ok |-> ok])

GapFinish(result) ==
    gap' = [gap EXCEPT !.pc = "done", !.target = None, !.result = result]

\* the for loop without its filter: the next client from position from on,
\* the current and the fallback provider included
NextRestUnfiltered(from) ==
    IF from <= Len(clients) THEN from ELSE 0

\* the for loop of get_available_provider: index of the next client from
\* position from on that is neither the current nor the fallback provider,
\* 0 when there is none
NextRest(from) ==
    LET cand == {j \in from..Len(clients) :
                    clients[j] \notin {current_provider, fallback_provider}}
    IN  IF cand = {} THEN 0
        ELSE CHOOSE j \in cand : \A k \in cand : j <= k

\* continue with the for loop from index from: probe the next candidate or
\* return None
GapRest(from) ==
    IF NextRest(from) = 0 THEN GapFinish(None)
    ELSE BeginProbe("rest", clients[NextRest(from)], NextRest(from))

\* get_available_provider is entered: test_connection(self._current_provider)
GapCall(caller) ==
    /\ gap.pc = "idle"
    /\ gap' = [pc |-> "current", target |-> current_provider, i |-> 0,
               result |-> None, caller |-> caller]
    /\ probes' = <<>>

\* the probe of the current provider answers
GapEndCurrent(ok) ==
    /\ gap.pc = "current"
    /\ ok \in ProbeOutcomes
    /\ LogProbe(ok)
    /\ IF ok THEN GapFinish(current_provider)
       ELSE IF fallback_provider # None
            THEN BeginProbe("fallback", fallback_provider, 0)
            ELSE GapRest(1)

\* the probe of the fallback provider answers
GapEndFallback(ok) ==
    /\ gap.pc = "fallback"
    /\ ok \in ProbeOutcomes
    /\ LogProbe(ok)
    /\ IF ok THEN GapFinish(fallback_provider) ELSE GapRest(1)

\* the probe of a remaining provider answers
GapEndRest(ok) ==
    /\ gap.pc = "rest"
    /\ ok \in ProbeOutcomes
    /\ LogProbe(ok)
    /\ IF ok THEN GapFinish(gap.target) ELSE GapRest(gap.i + 1)

\* one step of a running get_available_provider call
GapStep ==
    /\ \E ok \in BOOLEAN : GapEndCurrent(ok) \/ GapEndFallback(ok) \/ GapEndRest(ok)
    /\ UNCHANGED <<clients, current_provider, fallback_provider, switched>>
    /\ UNCHANGED not_llm_vars

\* the registry before any call
LLMStart ==
    /\ gap = GapIdle
    /\ probes = <<>>
    /\ switched = [provider |-> None, ok |-> FALSE]

\* a switch that does not look at the clients
switch_to_any(provider) ==
    /\ current_provider' = provider
    /\ switched' = [provider |-> provider, ok |-> TRUE]
    /\ UNCHANGED <<clients, fallback_provider>>

\* LLMService.switch_provider
switch_provider(provider) ==
    /\ IF provider \in Range(clients)
       THEN current_provider' = provider /\ switched' = [provider |-> provider, ok |-> TRUE]
       ELSE current_provider' = current_provider
            /\ switched' = [provider |-> provider, ok |-> FALSE]
    /\ UNCHANGED <<clients, fallback_provider>>

(***************************************************************************)
(* Persona selection: table characters, the selection kept in redis        *)
(***************************************************************************)

\* seeded personas (app/db/seed_characters.py): Aanya, Arjun, Meera
Characters == {1, 2, 3}

Users == {1, 2}

\* Character.is_premium of the seeded personas: Meera is premium
is_premium(character_id) == character_id = 3

\* User.subscription_tier: user 2 is on the pro tier
subscription_tier(user_id) == IF user_id = 2 THEN "pro" ELSE "free"

\* the ids a caller can name: the seeded ones and one that does not exist
CharacterIds == Characters \cup {4}

NoAnswer == [op |-> "none", user_id |-> 0, character |-> 0, code |-> None]

NoSelection ==
    /\ user_character = [u \in Users |-> 0]
    /\ answer = NoAnswer

\* a check that lets every user use every character
can_be_used_by_anyone(character_id, user_is_premium) == TRUE

\* Character.can_be_used_by_user
can_be_used_by_user(character_id, user_is_premium) ==
    ~(is_premium(character_id) /\ ~user_is_premium)

\* CharacterService.get_character_by_id: the row, None (0) when there is
\* none or the query fails
get_character_by_id(character_id, db_ok) ==
    IF db_ok /\ character_id \in Characters THEN character_id ELSE 0

RECURSIVE order_by_id(_)
\* .order_by(Character.id): the rows as a list, lowest id first
order_by_id(rows) ==
    IF rows = {} THEN <<>>
    ELSE LET first == CHOOSE r \in rows : \A q \in rows : r.id <= q.id
         IN  <<first>> \o order_by_id(rows \ {first})

\* a listing that leaves the where clause out
select_every_character(rows, user_is_premium, db_ok) ==
    IF ~db_ok THEN <<>> ELSE order_by_id(rows)

\* the statements of get_all_characters on the rows of table characters:
\* every row for a premium user, the rows with is_premium == False for any
\* other, ordered by id; [] when the query fails
select_characters(rows, user_is_premium, db_ok) ==
    IF ~db_ok THEN <<>>
    ELSE IF user_is_premium THEN order_by_id(rows)
    ELSE order_by_id({r \in rows : r.is_premium = FALSE})

\* CharacterService.get_all_characters on the seeded table: the ids of the
\* rows returned
get_all_characters(user_is_premium, db_ok) ==
    LET seeded == {[id |-> c, is_premium |-> is_premium(c)] : c \in Characters}
        characters == select_characters(seeded, user_is_premium, db_ok)
    IN  {characters[i].id : i \in 1..Len(characters)}

Min(S) == CHOOSE x \in S : \A y \in S : x <= y

\* RedisService.set_user_character
set_user_character(sel, user_id, character_id, redis_ok) ==
    IF redis_ok THEN [sel EXCEPT ![user_id] = character_id] ELSE sel

\* RedisService.get_user_character
get_user_character(sel, user_id, redis_ok) ==
    IF redis_ok THEN sel[user_id] ELSE 0

\* a clear that deletes nothing
keep_user_character(sel, user_id, redis_ok) == sel

\* RedisService.clear_user_character
clear_user_character(sel, user_id, redis_ok) ==
    IF redis_ok THEN [sel EXCEPT ![user_id] = 0] ELSE sel

PersonaFlags == [{"d1", "d2", "d3", "r1", "r2", "r3"} -> BOOLEAN]

\* the outcomes of the calls _get_user_character makes; an outcome is
\* enumerated only for a call that can be made
ResolveFlags ==
    {f \in PersonaFlags :
        /\ f.d1 => (f.r2 /\ f.d2 /\ f.d3 /\ f.r3)
        /\ ~f.d1 => f.r1
        /\ ~f.r2 => f.d2
        /\ ~f.d3 => f.r3}

\* the outcomes of the three calls get_user_selected_character makes
SelectedFlags == {f \in PersonaFlags : f.d2 /\ f.d3 /\ f.r3}

\* CharacterService.get_user_selected_character.  f: r1 the redis read, d1
\* the character query, r2 the redis delete
get_user_selected_character(user_id, f) ==
    LET character_id == get_user_character(user_character, user_id, f.r1)
        character == get_character_by_id(character_id, f.d1)
    IN  IF character_id = 0
        THEN [sel |-> user_character, character |-> 0]
        ELSE IF character # 0
        THEN [sel |-> user_character, character |-> character]
        ELSE [sel |-> clear_user_character(user_character, user_id, f.r2), character |-> 0]

\* CharacterService.select_character.  f: d1 the query of
\* can_user_access_character, d2 the query that tells the two refusals
\* apart, r1 the redis write, d3 the query after the write
select_character(user_id, character_id, user_is_premium, f) ==
    LET found == get_character_by_id(character_id, f.d1)
        can_access == found # 0 /\ can_be_used_by_user(found, user_is_premium)
    IN  IF ~can_access
        THEN [sel |-> user_character,
              code |-> IF get_character_by_id(character_id, f.d2) = 0
                       THEN "CHARACTER_NOT_FOUND" ELSE "PREMIUM_REQUIRED"]
        ELSE IF ~f.r1
        THEN [sel |-> user_character, code |-> "CACHE_ERROR"]
        ELSE [sel |-> set_user_character(user_character, user_id, character_id, TRUE),
              code |-> IF get_character_by_id(character_id, f.d3) = 0
                       THEN "INTERNAL_ERROR" ELSE "OK"]

\* ChatService.switch_character.  f: d1 the character query, r1 the redis
\* write
switch_character(user_id, character_id, f) ==
    IF get_character_by_id(character_id, f.d1) = 0
    THEN [sel |-> user_character, code |-> "CHARACTER_NOT_FOUND"]
    ELSE IF ~f.r1
    THEN [sel |-> user_character, code |-> "CACHE_ERROR"]
    ELSE [sel |-> set_user_character(user_character, user_id, character_id, TRUE),
          code |-> "OK"]

\* ChatService._get_user_character.  f: d1/r1 the query and the redis write
\* for a character_id that was passed, r2/d2 the cached selection and its
\* query, d3/r3 the default character and the write that caches it
get_user_character_for_chat(user_id, character_id, f) ==
    LET given == IF character_id # 0 THEN get_character_by_id(character_id, f.d1) ELSE 0
        cached_character_id == get_user_character(user_character, user_id, f.r2)
        cached == IF cached_character_id # 0
                  THEN get_character_by_id(cached_character_id, f.d2) ELSE 0
        characters == get_all_characters(FALSE, f.d3)
    IN  IF given # 0
        THEN [sel |-> set_user_character(user_character, user_id, character_id, f.r1),
              character |-> given]
        ELSE IF cached # 0
        THEN [sel |-> user_character, character |-> cached]
        ELSE IF characters # {}
        THEN [sel |-> set_user_character(user_character, user_id, Min(characters), f.r3),
              character |-> Min(characters)]
        ELSE [sel |-> user_character, character |-> 0]

(***************************************************************************)
(* Context store: tables conversations and messages, the redis context     *)
(* cache                                                                   *)
(***************************************************************************)

MaxConversations == 1
MaxTurns == 2

\* texts are sequences of pieces; a piece of white space is " "
Blank == " "

\* the message texts a client submits
UserTexts == {<<"hello">>}

\* the limits get_message_context is called with: the 5 of process_message
\* and one more value a history request may pass
Limits == {1, 5}

\* db: what the database did in an operation made while redis is down
NoLast ==
    [op |-> "none", conv |-> 0, limit |-> 0, ctx |-> <<>>, src |-> "none", ok |-> FALSE,
     db |-> "ok"]

StoreEmpty ==
    /\ conversations = <<>>
    /\ messages = <<>>
    /\ cache = <<>>
    /\ last = NoLast

\* Conversation(user_id, character_id, message_count=0); last_message_at is
\* NULL (0) until the first increment
NewConversation(user_id, character_id) ==
    [user_id |-> user_id, character_id |-> character_id,
     message_count |-> 0, last_message_at |-> 0]

\* rows of the pair that ORDER BY last_message_at DESC LIMIT 1 can return:
\* the latest one, where the database decides whether NULL sorts first
MostRecent(user_id, character_id) ==
    LET rows == {i \in DOMAIN conversations :
                    /\ conversations[i].user_id = user_id
                    /\ conversations[i].character_id = character_id}
        nulls == {i \in rows : conversations[i].last_message_at = 0}
        dated == rows \ nulls
        latest == {i \in dated : \A j \in dated :
                      conversations[j].last_message_at <= conversations[i].last_message_at}
    IN  nulls \cup latest

\* the row the SELECT of get_or_create_conversation can return, 0 for none
Found(user_id, character_id) ==
    IF MostRecent(user_id, character_id) = {} THEN {0}
    ELSE MostRecent(user_id, character_id)

DbOutcomes == {"ok", "db_fail", "refresh_fail"}

\* a call that inserts a row without looking for one
create_conversation(user_id, character_id, found, out) ==
    IF out = "db_fail"
    THEN [conversations |-> conversations, id |-> 0]
    ELSE [conversations |-> Append(conversations, NewConversation(user_id, character_id)),
          id |-> IF out = "refresh_fail" THEN 0 ELSE Len(conversations) + 1]

\* ConversationContext.get_or_create_conversation: the tables afterwards and
\* the id returned (0 for None).  found is the row the SELECT returned (0 when
\* there is none); out is what the database does: "db_fail" fails the SELECT
\* or the COMMIT, "refresh_fail" fails the refresh after the commit
get_or_create_conversation(user_id, character_id, found, out) ==
    IF found # 0
    THEN [conversations |-> conversations, id |-> IF out = "db_fail" THEN 0 ELSE found]
    ELSE IF out = "db_fail"
    THEN [conversations |-> conversations, id |-> 0]
    ELSE [conversations |-> Append(conversations, NewConversation(user_id, character_id)),
          id |-> IF out = "refresh_fail" THEN 0 ELSE Len(conversations) + 1]

\* an increment that only touches the timestamp
touch_last_message_at(row, now) ==
    [row EXCEPT !.last_message_at = now]

\* Conversation.increment_message_count with update_last_message_at
increment_message_count(row, now) ==
    [row EXCEPT !.message_count = row.message_count + 1, !.last_message_at = now]

\* redis key f"conv:{conversation_id}:ctx:{limit}"
CtxKey(conversation_id, limit) == <<"ctx", conversation_id, limit>>

\* redis key f"conv:{user_id}:{character_id}"
ConvKey(user_id, character_id) == <<"conv", user_id, character_id>>

\* the limits whose keys _clear_conversation_cache deletes
cache_patterns == {5, 10, 20}

\* what a redis operation can do: work, or fail (the service logs and goes on)
RedisOutcomes == BOOLEAN

Restrict(f, keys) == IF keys = {} THEN <<>> ELSE [k \in keys |-> f[k]]

\* ConversationContext._clear_conversation_cache; deleted are the limits
\* whose delete_cache call reached redis
clear_conversation_cache(c, conversation_id, deleted) ==
    Restrict(c, DOMAIN c \ {CtxKey(conversation_id, l) : l \in cache_patterns \cap deleted})

\* save_user_message / save_assistant_message: add the message, increment the
\* conversation's count, commit, refresh, clear the cached context.  A missing
\* conversation row fails the commit on the foreign key.
save_message(conversation_id, sender_type, content, out, deleted) ==
    IF out = "db_fail" \/ conversation_id \notin DOMAIN conversations
    THEN [messages |-> messages, conversations |-> conversations, cache |-> cache,
          saved |-> FALSE]
    ELSE [messages |-> Append(messages, [conversation_id |-> conversation_id,
                                         sender_type |-> sender_type,
                                         content |-> content]),
          conversations |-> [conversations EXCEPT ![conversation_id] =
                                increment_message_count(@, Len(messages) + 1)],
          cache |-> IF out = "refresh_fail" THEN cache
                    ELSE clear_conversation_cache(cache, conversation_id, deleted),
          saved |-> out = "ok"]

\* the persisted messages of a conversation, oldest first
Turns(conversation_id) ==
    SelectSeq(messages, LAMBDA m : m.conversation_id = conversation_id)

LastN(s, n) == IF Len(s) <= n THEN s ELSE SubSeq(s, Len(s) - n + 1, Len(s))

\* OpenAI format of a message row
AsContext(m) ==
    [role |-> IF m.sender_type = "user" THEN "user" ELSE "assistant", content |-> m.content]

\* the SELECT of get_message_context: the limit most recent rows, reversed to
\* oldest first
RecentContext(conversation_id, limit) ==
    LET rows == LastN(Turns(conversation_id), limit)
    IN  [i \in 1..Len(rows) |-> AsContext(rows[i])]

\* RedisService.get_cache: the value, or None (<<>>) when the key is missing
\* or redis fails; a cached empty list reads as <<>> too and is as falsy
get_cache(key, redis_ok) ==
    IF redis_ok /\ key \in DOMAIN cache THEN cache[key] ELSE <<>>

\* a get_message_context that a failing redis read ends
get_message_context_uncaught(conversation_id, limit, f) ==
    IF f.r1 /\ f.r2 /\ f.r3
    THEN [cache |-> cache, ctx |-> RecentContext(conversation_id, limit), src |-> "storage"]
    ELSE [cache |-> cache, ctx |-> <<>>, src |-> "failed"]

\* ConversationContext.get_message_context.  f holds the outcome of each
\* collaborator call: r1 get_cache(cache_key), d1 get_conversation_cache_key,
\* r2 get_cache(conversation key), d2 the SELECT, r3 set_cache
get_message_context(conversation_id, limit, f) ==
    LET cache_key == CtxKey(conversation_id, limit)
        cached_context == get_cache(cache_key, f.r1)
        row_known == f.d1 /\ conversation_id \in DOMAIN conversations
        conversation_cached ==
            IF limit = 5 /\ row_known
            THEN get_cache(ConvKey(conversations[conversation_id].user_id,
                                   conversations[conversation_id].character_id), f.r2)
            ELSE <<>>
        context == RecentContext(conversation_id, limit)
    IN  IF cached_context # <<>>
        THEN [cache |-> cache, ctx |-> cached_context, src |-> "cache"]
        ELSE IF conversation_cached # <<>>
        THEN [cache |-> cache, ctx |-> conversation_cached, src |-> "conversation_cache"]
        ELSE IF ~f.d2
        THEN [cache |-> cache, ctx |-> <<>>, src |-> "failed"]
        ELSE [cache |-> IF f.r3
                        THEN [k \in DOMAIN cache \cup {cache_key} |->
                                 IF k = cache_key THEN context ELSE cache[k]]
                        ELSE cache,
              ctx |-> context, src |-> "storage"]

\* the outcomes of the collaborator calls of one get_message_context call;
\* an outcome is enumerated only for a call that is made and whose failure
\* differs from its success (reading a missing key fails like a miss)
ContextFlags(conversation_id, limit) ==
    {f \in [{"r1", "d1", "r2", "d2", "r3"} -> BOOLEAN] :
        LET hit == CtxKey(conversation_id, limit) \in DOMAIN cache
                   /\ cache[CtxKey(conversation_id, limit)] # <<>>
            row == conversation_id \in DOMAIN conversations
            conv_hit == /\ limit = 5
                        /\ row
                        /\ ConvKey(conversations[conversation_id].user_id,
                                   conversations[conversation_id].character_id)
                               \in DOMAIN cache
        IN  /\ (~hit => f.r1)
            /\ ((hit /\ f.r1) => (f.d1 /\ f.r2 /\ f.d2 /\ f.r3))
            /\ (~conv_hit => (f.d1 /\ f.r2))
            /\ (~f.d1 => f.r2)
            /\ (~f.d2 => f.r3)}

\* the limits whose cached context of the conversation a
\* _clear_conversation_cache call can delete; deleting a missing key does
\* the same whether redis answers or not
Deletable(conversation_id) ==
    {l \in cache_patterns : CtxKey(conversation_id, l) \in DOMAIN cache}

Procs == {1, 2}

\* a request task that has not started: what it calls and with what, what it
\* has read so far and what it returns
TaskIdle ==
    [pc |-> "idle", user_id |-> 0, character_id |-> 0, result |-> 0,
     op |-> None, conversation_id |-> 0, sender_type |-> None, content |-> <<>>,
     message_count |-> 0, limit |-> 0, context |-> <<>>]

NoTasks == proc = [p \in Procs |-> TaskIdle]

(***************************************************************************)
(* One request at a time: the persona routes, route send_message, its      *)
(* sse_generator, ChatService.process_message and                          *)
(* ChatService._generate_ai_response                                       *)
(***************************************************************************)

MaxRequests == 2

\* ChatService.max_retries
max_retries == 2

\* the replies a backend produces, as the pieces it streams them in: nothing,
\* white space only, a text that ends in white space
Completions == {<<>>, <<Blank>>, <<"hi", Blank>>}

RECURSIVE lstrip(_)
lstrip(text) ==
    IF text # <<>> /\ Head(text) = Blank THEN lstrip(Tail(text)) ELSE text

RECURSIVE rstrip(_)
rstrip(text) ==
    IF text # <<>> /\ text[Len(text)] = Blank
    THEN rstrip(SubSeq(text, 1, Len(text) - 1)) ELSE text

\* str.strip
strip(text) == rstrip(lstrip(text))

Event(type, code, provider, content) ==
    [type |-> type, code |-> code, provider |-> provider, content |-> content]

Terminal(e) == e.type \in {"complete", "error"}

\* the locals of a request; base is the number of message rows when it began
Idle ==
    [pc |-> "idle", op |-> None, via |-> None, user_id |-> 0, message_content |-> <<>>,
     stream |-> FALSE, character_id |-> 0, called |-> FALSE, character |-> 0,
     conversation_id |-> 0, user_message |-> FALSE, context_messages |-> <<>>,
     probed |-> FALSE, selection |-> <<>>, provider_used |-> None,
     response_content |-> <<>>, provider |-> None, retries |-> 0, completion |-> <<>>,
     assistant_message |-> FALSE, http |-> 0, base |-> 0, cancelled_at |-> None,
     selected_before |-> 0, limit |-> 0, offset |-> 0, lookups |-> <<>>, total |-> 0]

NoRequest ==
    [n |-> 0, op |-> None, user_id |-> 0, message_content |-> <<>>,
     conversation_id |-> 0, code |-> None]

NoRun ==
    /\ run = Idle
    /\ events = <<>>
    /\ wire = <<>>
    /\ requests = <<>>
    /\ previous = NoRequest

\* sse_generator(message_stream, heartbeat_interval: int = 15)
heartbeat_interval == 15

\* no event stream is open: the locals of sse_generator and the times at which
\* it last sent a real event and a heartbeat (-1: never)
SseIdle ==
    [pc |-> "idle", transport |-> None, message_stream |-> <<>>, last_heartbeat |-> 0,
     last_event_at |-> 0, last_ping_at |-> -1]

NoStream == clock = 0 /\ sse = SseIdle

\* build_messages has not been called; first, builds and raises_again are
\* those of the calls process_message makes
NoBuild ==
    [pc |-> "idle", character |-> 0, context_messages |-> <<>>, user_message |-> <<>>,
     language |-> None, provider |-> None, raises |-> None, messages |-> <<>>,
     instruction |-> <<>>, optimized |-> <<>>, raises_again |-> None, first |-> <<>>,
     builds |-> 0]

NoPrompt == prompt = NoBuild

NoJournal == journal = <<>>

NoAside == NoStream /\ NoPrompt /\ NoJournal

\* the request is over: what it was and how it ended
Closed(r, code) ==
    [n |-> previous.n + 1, op |-> r.op, user_id |-> r.user_id,
     message_content |-> r.message_content,
     conversation_id |-> r.conversation_id, code |-> code]

\* the server takes the next request of its client when none is being
\* handled; the requests of one behaviour come from one user
Accepting(user_id) ==
    /\ run.pc \in {"idle", "closed"}
    /\ previous.n < MaxRequests
    /\ previous.n > 0 => previous.user_id = user_id

\* a persona route has answered
PersonaDone(op, user_id, sel, code) ==
    /\ Accepting(user_id)
    /\ user_character' = sel
    /\ answer' = [op |-> op, user_id |-> user_id, character |-> sel[user_id], code |-> code]
    /\ run' = [Idle EXCEPT !.pc = "closed", !.op = op, !.user_id = user_id]
    /\ previous' = Closed([Idle EXCEPT !.op = op, !.user_id = user_id], code)
    /\ events' = <<>>
    /\ wire' = <<>>
    /\ requests' = <<>>
    /\ UNCHANGED <<llm_vars, store_vars, proc, aside_vars>>

\* the outcomes of the calls select_character makes
SelectFlags == {f \in PersonaFlags : f.r2 /\ f.r3}

\* the outcomes of the calls switch_character makes
SwitchFlags == {f \in PersonaFlags : f.d2 /\ f.d3 /\ f.r2 /\ f.r3}

\* POST /characters/{character_id}/select
SelectCharacter ==
    \E user_id \in Users, character_id \in CharacterIds, f \in SelectFlags :
        LET r == select_character(user_id, character_id,
                                  subscription_tier(user_id) = "pro", f)
        IN  PersonaDone("select", user_id, r.sel, r.code)

\* POST /chat/switch-character
SwitchCharacter ==
    \E user_id \in Users, character_id \in CharacterIds, f \in SwitchFlags :
        LET r == switch_character(user_id, character_id, f)
        IN  PersonaDone("switch", user_id, r.sel, r.code)

\* DELETE /characters/current
ClearSelection ==
    \E user_id \in Users, redis_ok \in BOOLEAN :
        PersonaDone("clear", user_id, clear_user_character(user_character, user_id, redis_ok),
                    IF redis_ok THEN "OK" ELSE "CACHE_ERROR")

\* process_message yields e; the streaming route passes it on to the client
Emit(e) ==
    /\ events' = Append(events, e)
    /\ wire' = IF run.via = "sse" THEN Append(wire, e) ELSE wire

\* where process_message goes on after it has passed on an error chunk of
\* _generate_ai_response: it falls through to the save and the complete event
after_error_chunk_no_return == "save_assistant"

\* where process_message goes on after it has passed on an error chunk of
\* _generate_ai_response: it returns
after_error_chunk == "ended"

\* a loop condition that allows one attempt more
may_retry_once_more(retries) == retries <= max_retries + 1

\* the condition of the while loop and of the retry branch of
\* _generate_ai_response
may_retry(retries) == retries <= max_retries

\* a check of the selected provider that lets None through
unavailable_ignored(provider_used) == FALSE

\* if not provider_used
unavailable(provider_used) == provider_used = None

\* a save whose failure reaches the except Exception of process_message
save_failure_raises(saved) == ~saved

\* whether a save that returned no message ends the run: process_message
\* only logs "Failed to save user message" / "Failed to save assistant
\* message" and goes on
save_failure_ends_run(saved) == FALSE

\* POST /chat/send: the route resolves the selected character, then either
\* hands the stream to sse_generator or starts process_message itself.  The
\* HTTPException(400) it raises is caught by its own except Exception.
SendMessage ==
    \E user_id \in Users, message_content \in UserTexts, stream \in BOOLEAN, f \in SelectedFlags :
        LET r == get_user_selected_character(user_id, f)
            begun == [Idle EXCEPT !.op = "send", !.user_id = user_id,
                                  !.message_content = message_content, !.stream = stream,
                                  !.base = Len(messages)]
        IN  /\ Accepting(user_id)
            /\ user_character' = r.sel
            /\ answer' = [op |-> "send", user_id |-> user_id, character |-> r.character,
                          code |-> None]
            /\ events' = <<>>
            /\ wire' = <<>>
            /\ requests' = <<>>
            /\ probes' = <<>>
            /\ IF r.character = 0
               THEN /\ run' = [begun EXCEPT !.pc = "closed", !.http = 500]
                    /\ previous' = Closed(begun, "HTTP_500")
               ELSE /\ run' = [begun EXCEPT !.pc = IF stream THEN "sse" ELSE "resolve",
                                            !.via = IF stream THEN "sse" ELSE "json",
                                            !.character_id = r.character,
                                            !.http = IF stream THEN 200 ELSE 0]
                    /\ UNCHANGED previous
            /\ UNCHANGED <<clients, current_provider, fallback_provider, gap, switched>>
            /\ UNCHANGED <<store_vars, proc, aside_vars>>

\* sse_generator of the route starts: it resolves the selected character again
SseStart ==
    \E f \in SelectedFlags :
        LET r == get_user_selected_character(run.user_id, f)
        IN  /\ run.pc = "sse"
            /\ user_character' = r.sel
            /\ answer' = [op |-> "send", user_id |-> run.user_id, character |-> r.character,
                          code |-> None]
            /\ IF r.character = 0
               THEN /\ wire' = Append(wire, Event("error", "CHARACTER_NOT_SELECTED", None, <<>>))
                    /\ run' = [run EXCEPT !.pc = "closed"]
                    /\ previous' = Closed(run, "CHARACTER_NOT_SELECTED")
               ELSE /\ run' = [run EXCEPT !.pc = "resolve", !.character_id = r.character]
                    /\ UNCHANGED <<wire, previous>>
            /\ UNCHANGED <<events, requests>>
            /\ UNCHANGED <<llm_vars, store_vars, proc, aside_vars>>

\* process_message is entered: _get_user_character
Resolve ==
    \E f \in ResolveFlags :
        LET r == get_user_character_for_chat(run.user_id, run.character_id, f)
        IN  /\ run.pc = "resolve"
            /\ user_character' = r.sel
            /\ answer' = [op |-> "chat", user_id |-> run.user_id, character |-> r.character,
                          code |-> None]
            /\ IF r.character = 0
               THEN /\ Emit(Event("error", "CHARACTER_NOT_SELECTED", None, <<>>))
                    /\ run' = [run EXCEPT !.pc = "ended", !.called = TRUE]
               ELSE /\ run' = [run EXCEPT !.pc = "conversation", !.called = TRUE,
                                          !.character = r.character]
                    /\ UNCHANGED <<events, wire>>
            /\ UNCHANGED <<requests, previous>>
            /\ UNCHANGED <<llm_vars, store_vars, proc, aside_vars>>

\* conversation_context.get_or_create_conversation
Conversation ==
    \E out \in DbOutcomes :
    \E found \in Found(run.user_id, run.character) :
        LET r == get_or_create_conversation(run.user_id, run.character, found, out)
        IN  /\ run.pc = "conversation"
            /\ conversations' = r.conversations
            /\ IF r.id = 0
               THEN /\ Emit(Event("error", "CONVERSATION_ERROR", None, <<>>))
                    /\ run' = [run EXCEPT !.pc = "ended"]
               ELSE /\ run' = [run EXCEPT !.pc = "save_user", !.conversation_id = r.id]
                    /\ UNCHANGED <<events, wire>>
            /\ UNCHANGED <<messages, cache, last, requests, previous>>
            /\ UNCHANGED <<llm_vars, persona_vars, proc, aside_vars>>

\* conversation_context.save_user_message; a failure is only logged
SaveUser ==
    \E out \in DbOutcomes :
    \E deleted \in SUBSET Deletable(run.conversation_id) :
        LET r == save_message(run.conversation_id, "user", run.message_content, out, deleted)
        IN  /\ run.pc = "save_user"
            /\ messages' = r.messages
            /\ conversations' = r.conversations
            /\ cache' = r.cache
            /\ IF save_failure_ends_run(r.saved)
               THEN /\ Emit(Event("error", "PROCESSING_ERROR", None, <<>>))
                    /\ run' = [run EXCEPT !.pc = "ended"]
               ELSE /\ run' = [run EXCEPT !.pc = "context", !.user_message = r.saved]
                    /\ UNCHANGED <<events, wire>>
            /\ UNCHANGED <<last, requests, previous>>
            /\ UNCHANGED <<llm_vars, persona_vars, proc, aside_vars>>

\* conversation_context.get_message_context(limit=5), then
\* llm_service.get_available_provider is entered
Context ==
    \E f \in ContextFlags(run.conversation_id, 5) :
        LET r == get_message_context(run.conversation_id, 5, f)
        IN  /\ run.pc = "context"
            /\ cache' = r.cache
            /\ run' = [run EXCEPT !.pc = "select", !.context_messages = r.ctx]
            /\ GapCall("select")
            /\ UNCHANGED <<clients, current_provider, fallback_provider, switched>>
            /\ UNCHANGED <<conversations, messages, last>>
            /\ UNCHANGED <<events, wire, requests, previous>>
            /\ UNCHANGED <<persona_vars, proc, aside_vars>>

\* a step outside the inner handlers raises (the conversion of a cached
\* context, prompt_builder.build_messages): the except Exception of
\* process_message yields PROCESSING_ERROR
Unexpected ==
    /\ \/ run.pc = "context"
       \/ run.pc = "select" /\ gap.pc = "done" /\ gap.result # None
    /\ Emit(Event("error", "PROCESSING_ERROR", gap.result, <<>>))
    /\ run' = [run EXCEPT !.pc = "ended", !.probed = (run.pc = "select"),
                          !.selection = probes, !.provider_used = gap.result]
    /\ gap' = GapIdle
    /\ UNCHANGED <<clients, current_provider, fallback_provider, probes, switched>>
    /\ UNCHANGED <<requests, previous>>
    /\ UNCHANGED <<store_vars, persona_vars, proc, aside_vars>>

\* a process_message that starts the generation without a metadata event
send_nothing(provider_used) == UNCHANGED <<events, wire>>

\* yield {"type": "metadata", ...} before _generate_ai_response is started
send_metadata(provider_used) == Emit(Event("metadata", None, provider_used, <<>>))

\* get_available_provider has returned: SERVICE_UNAVAILABLE, or the prompt is
\* built, the metadata event is yielded and, after the delay,
\* _generate_ai_response starts with the selected provider
Selected ==
    /\ run.pc = "select"
    /\ gap.pc = "done"
    /\ gap' = GapIdle
    /\ IF unavailable(gap.result)
       THEN /\ Emit(Event("error", "SERVICE_UNAVAILABLE", None, <<>>))
            /\ run' = [run EXCEPT !.pc = "ended", !.probed = TRUE, !.selection = probes,
                                  !.provider_used = gap.result]
       ELSE /\ send_metadata(gap.result)
            /\ run' = [run EXCEPT !.pc = "attempt", !.probed = TRUE, !.selection = probes,
                                  !.provider_used = gap.result, !.provider = gap.result]
    /\ UNCHANGED <<clients, current_provider, fallback_provider, probes, switched>>
    /\ UNCHANGED <<requests, previous>>
    /\ UNCHANGED <<store_vars, persona_vars, proc, aside_vars>>

\* _generate_ai_response yields GENERATION_FAILED; process_message passes the
\* chunk on
GiveUp(retries) ==
    /\ Emit(Event("error", "GENERATION_FAILED", run.provider, <<>>))
    /\ run' = [run EXCEPT !.pc = after_error_chunk, !.retries = retries,
                          !.completion = <<>>]

\* the except branch of _generate_ai_response
Failed ==
    LET retries == run.retries + 1
    IN  IF ~may_retry(retries)
        THEN GiveUp(retries) /\ UNCHANGED <<gap, probes>>
        ELSE IF run.provider = current_provider /\ fallback_provider # None
        THEN /\ run' = [run EXCEPT !.pc = "attempt", !.retries = retries,
                                   !.provider = fallback_provider, !.completion = <<>>]
             /\ UNCHANGED <<gap, probes, events, wire>>
        ELSE /\ run' = [run EXCEPT !.pc = "retry", !.retries = retries,
                                   !.completion = <<>>]
             /\ GapCall("retry")
             /\ UNCHANGED <<events, wire>>

\* one pass through the try block up to the first chunk: get_client,
\* client.chat.completions.create.  Without streaming the whole reply is
\* one content chunk and the generator returns.  A request notes how many
\* events had been yielded when it was issued.
Attempt ==
    /\ run.pc = "attempt"
    /\ may_retry(run.retries)
    /\ LET client == get_client(run.provider)
       IN  IF client = "ValueError"
           THEN Failed /\ UNCHANGED requests
           ELSE /\ requests' = Append(requests, [provider |-> run.provider, client |-> client,
                                                 after |-> Len(events)])
                /\ \/ Failed
                   \/ \E completion \in Completions :
                        IF run.stream
                        THEN /\ run' = [run EXCEPT !.pc = "stream", !.completion = completion]
                             /\ UNCHANGED <<gap, probes, events, wire>>
                        ELSE /\ run' = [run EXCEPT !.pc = "save_assistant",
                                                   !.response_content = @ \o completion]
                             /\ IF completion # <<>>
                                THEN Emit(Event("content", None, run.provider, completion))
                                ELSE UNCHANGED <<events, wire>>
                             /\ UNCHANGED <<gap, probes>>
    /\ UNCHANGED <<clients, current_provider, fallback_provider, switched>>
    /\ UNCHANGED previous
    /\ UNCHANGED <<store_vars, persona_vars, proc, aside_vars>>

\* the next chunk of a streamed completion: delta content, the end of the
\* stream, or an error of the backend
Chunk ==
    /\ run.pc = "stream"
    /\ \/ /\ run.completion # <<>>
          /\ Emit(Event("content", None, run.provider, <<Head(run.completion)>>))
          /\ run' = [run EXCEPT !.completion = Tail(@),
                                !.response_content = Append(@, Head(run.completion))]
          /\ UNCHANGED <<gap, probes>>
       \/ /\ run.completion = <<>>
          /\ run' = [run EXCEPT !.pc = "save_assistant"]
          /\ UNCHANGED <<gap, probes, events, wire>>
       \/ Failed
    /\ UNCHANGED <<clients, current_provider, fallback_provider, switched>>
    /\ UNCHANGED <<requests, previous>>
    /\ UNCHANGED <<store_vars, persona_vars, proc, aside_vars>>

\* the get_available_provider call of the except branch has returned
Retried ==
    /\ run.pc = "retry"
    /\ gap.pc = "done"
    /\ gap' = GapIdle
    /\ IF gap.result # None /\ gap.result # run.provider
       THEN /\ run' = [run EXCEPT !.pc = "attempt", !.provider = gap.result]
            /\ UNCHANGED <<events, wire>>
       ELSE GiveUp(run.retries)
    /\ UNCHANGED <<clients, current_provider, fallback_provider, probes, switched>>
    /\ UNCHANGED <<requests, previous>>
    /\ UNCHANGED <<store_vars, persona_vars, proc, aside_vars>>

\* the end of process_message: the reply is saved when it is more than white
\* space, then the complete event is yielded
SaveAssistant ==
    \E out \in DbOutcomes :
    \E deleted \in SUBSET Deletable(run.conversation_id) :
        LET content == strip(run.response_content)
            r == save_message(run.conversation_id, "assistant", content, out, deleted)
        IN  /\ run.pc = "save_assistant"
            /\ IF content # <<>>
               THEN /\ messages' = r.messages
                    /\ conversations' = r.conversations
                    /\ cache' = r.cache
                    /\ run' = [run EXCEPT !.pc = "ended", !.assistant_message = r.saved]
                    /\ IF save_failure_ends_run(r.saved)
                       THEN Emit(Event("error", "PROCESSING_ERROR", run.provider_used, <<>>))
                       ELSE Emit(Event("complete", None, run.provider_used, <<>>))
               ELSE /\ out = "ok" /\ deleted = {}
                    /\ run' = [run EXCEPT !.pc = "ended"]
                    /\ UNCHANGED <<messages, conversations, cache>>
                    /\ Emit(Event("complete", None, run.provider_used, <<>>))
            /\ UNCHANGED <<last, requests, previous>>
            /\ UNCHANGED <<llm_vars, persona_vars, proc, aside_vars>>

\* how process_message ended: the code of its last event, or complete
Outcome ==
    IF events = <<>> THEN None
    ELSE IF events[Len(events)].type = "error" THEN events[Len(events)].code
    ELSE events[Len(events)].type

\* process_message is exhausted; sse_generator sends its end-of-stream marker
SseEnd ==
    /\ run.pc = "ended"
    /\ run.via = "sse"
    /\ wire' = Append(wire, Event("end", None, None, <<>>))
    /\ run' = [run EXCEPT !.pc = "closed"]
    /\ previous' = Closed(run, Outcome)
    /\ UNCHANGED <<events, requests>>
    /\ UNCHANGED <<llm_vars, store_vars, persona_vars, proc, aside_vars>>

\* process_message is exhausted; the route returns the collected events
JsonReturn ==
    /\ run.pc = "ended"
    /\ run.via = "json"
    /\ run' = [run EXCEPT !.pc = "closed", !.http = 200]
    /\ previous' = Closed(run, Outcome)
    /\ UNCHANGED <<events, wire, requests>>
    /\ UNCHANGED <<llm_vars, store_vars, persona_vars, proc, aside_vars>>

\* the client goes away while the reply is generated or about to be saved:
\* the response task is cancelled and sse_generator and process_message are
\* never resumed from the yield or await they are suspended at
Disconnect ==
    /\ run.via = "sse"
    /\ run.pc \in {"attempt", "stream", "save_assistant"}
    /\ run' = [run EXCEPT !.pc = "closed", !.cancelled_at = run.pc]
    /\ previous' = Closed(run, "DISCONNECTED")
    /\ UNCHANGED <<events, wire, requests>>
    /\ UNCHANGED <<llm_vars, store_vars, persona_vars, proc, aside_vars>>

(***************************************************************************)
(* The context store on its own: its operations called one at a time       *)
(***************************************************************************)

\* the (user, persona) pairs the store is exercised with
Pairs == {<<1, 1>>, <<2, 3>>}

\* the replies of the assistant that get persisted
Replies == {<<"hi">>}

StoreGetOrCreate ==
    \E p \in Pairs, out \in DbOutcomes :
    \E found \in Found(p[1], p[2]) :
        LET r == get_or_create_conversation(p[1], p[2], found, out)
        IN  /\ Len(r.conversations) <= MaxConversations
            /\ conversations' = r.conversations
            /\ last' = [NoLast EXCEPT !.op = "get_or_create", !.conv = r.id, !.ok = r.id # 0]
            /\ UNCHANGED <<messages, cache>>
            /\ UNCHANGED not_store_vars

\* one append: save_user_message or save_assistant_message
StoreSave(sender_type, texts) ==
    \E conversation_id \in 1..MaxConversations, content \in texts, out \in DbOutcomes :
    \E deleted \in SUBSET Deletable(conversation_id) :
        LET r == save_message(conversation_id, sender_type, content, out, deleted)
        IN  /\ Len(r.messages) <= MaxTurns
            /\ messages' = r.messages
            /\ conversations' = r.conversations
            /\ cache' = r.cache
            /\ last' = [NoLast EXCEPT !.op = "save", !.conv = conversation_id, !.ok = r.saved]
            /\ UNCHANGED not_store_vars

StoreSaveUser == StoreSave("user", UserTexts)

StoreSaveAssistant == StoreSave("assistant", Replies)

StoreGetContext ==
    \E conversation_id \in 1..MaxConversations, limit \in Limits :
    \E f \in ContextFlags(conversation_id, limit) :
        LET r == get_message_context(conversation_id, limit, f)
        IN  /\ cache' = r.cache
            /\ last' = [NoLast EXCEPT !.op = "context", !.conv = conversation_id,
                                      !.limit = limit, !.ctx = r.ctx, !.src = r.src,
                                      !.ok = r.src # "failed"]
            /\ UNCHANGED <<conversations, messages>>
            /\ UNCHANGED not_store_vars

\* a cached context reaches the end of its one hour TTL
CacheExpire ==
    /\ \E key \in DOMAIN cache : cache' = Restrict(cache, DOMAIN cache \ {key})
    /\ last' = NoLast
    /\ UNCHANGED <<conversations, messages>>
    /\ UNCHANGED not_store_vars

\* a registry that is configured and has no call running
LLMQuiet ==
    /\ clients = Registered
    /\ current_provider = "groq"
    /\ fallback_provider = "openai"
    /\ LLMStart

InitStore == StoreEmpty /\ LLMQuiet /\ NoTasks /\ NoSelection /\ NoRun /\ NoAside

NextStore ==
    StoreGetOrCreate \/ StoreSaveUser \/ StoreSaveAssistant \/ StoreGetContext \/ CacheExpire

SpecStore == InitStore /\ [][NextStore]_vars

\* C4: every conversation's message_count is the number of its persisted
\* messages, after any sequence of get-or-create and append operations run
\* one at a time.
C4_CountMatchesTurns ==
    \A id \in DOMAIN conversations :
        conversations[id].message_count = Len(Turns(id))

\* both kinds of turn have been appended to one conversation and an append
\* to it has failed without leaving a row
C4_Witness ==
    /\ \E i, j \in DOMAIN messages :
          /\ messages[i].conversation_id = messages[j].conversation_id
          /\ messages[i].sender_type = "user"
          /\ messages[j].sender_type = "assistant"
    /\ last.op = "save"
    /\ ~last.ok
    /\ last.conv \in DOMAIN conversations

\* C5 as claimed: whatever the limit, a context served from a cache entry or
\* from storage is the min(limit, n) most recent persisted turns, oldest
\* first.
C5_ContextIsRecentTurns ==
    (last.op = "context" /\ last.src \in {"cache", "storage"}) =>
        last.ctx = RecentContext(last.conv, last.limit)

(***************************************************************************)
(* Two request tasks in get_or_create_conversation at the same time.  Each *)
(* task has its own session; a task is suspended at the SELECT and at the  *)
(* COMMIT.                                                                 *)
(***************************************************************************)

\* a task enters get_or_create_conversation(user_id, character_id)
RaceCall(p) ==
    /\ proc[p].pc = "idle"
    /\ \E pair \in Pairs :
          proc' = [proc EXCEPT ![p] = [TaskIdle EXCEPT !.pc = "select",
                                                       !.user_id = pair[1],
                                                       !.character_id = pair[2]]]
    /\ UNCHANGED store_vars
    /\ UNCHANGED not_race_vars

\* the SELECT answers: an existing row is returned, otherwise the task goes
\* on to create one
RaceSelect(p) ==
    /\ proc[p].pc = "select"
    /\ \E ok \in BOOLEAN :
       \E found \in Found(proc[p].user_id, proc[p].character_id) :
          proc' = [proc EXCEPT ![p].pc = IF ok /\ found = 0 THEN "commit" ELSE "done",
                               ![p].result = IF ok THEN found ELSE 0]
    /\ UNCHANGED store_vars
    /\ UNCHANGED not_race_vars

\* session.add, commit and refresh of the task that found no row
RaceCommit(p) ==
    /\ proc[p].pc = "commit"
    /\ \E out \in DbOutcomes :
          LET r == get_or_create_conversation(proc[p].user_id, proc[p].character_id, 0, out)
          IN  /\ conversations' = r.conversations
              /\ proc' = [proc EXCEPT ![p].pc = "done", ![p].result = r.id]
    /\ UNCHANGED <<messages, cache, last>>
    /\ UNCHANGED not_race_vars

InitRace == StoreEmpty /\ LLMQuiet /\ NoTasks /\ NoSelection /\ NoRun /\ NoAside

NextRace == \E p \in Procs : RaceCall(p) \/ RaceSelect(p) \/ RaceCommit(p)

SpecRace == InitRace /\ [][NextRace]_vars

RowsOf(user_id, character_id) ==
    {i \in DOMAIN conversations :
        /\ conversations[i].user_id = user_id
        /\ conversations[i].character_id = character_id}

\* C6 as claimed: when both tasks have called get_or_create_conversation for
\* the same pair while no conversation existed, at most one row exists for
\* the pair and tasks that got a conversation got the same one.
C6_OneConversationPerPair ==
    \A p, q \in Procs :
        (/\ proc[p].pc = "done"
         /\ proc[q].pc = "done"
         /\ proc[p].user_id = proc[q].user_id
         /\ proc[p].character_id = proc[q].character_id)
        => /\ Cardinality(RowsOf(proc[p].user_id, proc[p].character_id)) <= 1
           /\ (proc[p].result # 0 /\ proc[q].result # 0) => proc[p].result = proc[q].result

(***************************************************************************)
(* The registry on its own: get_service_status calls                       *)
(* get_available_provider, the admin route calls switch_provider between   *)
(* two such calls.                                                         *)
(***************************************************************************)

\* ChatService.get_service_status starts its get_available_provider call
StatusCall ==
    /\ GapCall("status")
    /\ UNCHANGED <<clients, current_provider, fallback_provider, switched>>
    /\ UNCHANGED not_llm_vars

\* get_service_status returns
StatusReturn ==
    /\ gap.pc = "done"
    /\ gap.caller = "status"
    /\ gap' = GapIdle
    /\ UNCHANGED <<clients, current_provider, fallback_provider, probes, switched>>
    /\ UNCHANGED not_llm_vars

\* admin_switch_provider while no status call is running
AdminSwitch ==
    /\ gap.pc = "idle"
    /\ \E provider \in ProviderNames : switch_provider(provider)
    /\ UNCHANGED <<gap, probes>>
    /\ UNCHANGED not_llm_vars

InitLLM ==
    /\ InitProviders
    /\ LLMStart
    /\ StoreEmpty
    /\ NoTasks
    /\ NoSelection
    /\ NoRun
    /\ NoAside

NextLLM == StatusCall \/ GapStep \/ StatusReturn \/ AdminSwitch

SpecLLM == InitLLM /\ [][NextLLM]_vars

\* the order get_available_provider is documented to try the providers in
ProbeOrder ==
    <<current_provider>>
    \o (IF fallback_provider # None THEN <<fallback_provider>> ELSE <<>>)
    \o SelectSeq(clients, LAMBDA p : p \notin {current_provider, fallback_provider})

\* C7: a finished get_available_provider call has probed the providers in the
\* order current, fallback, remaining clients in registration order, has
\* stopped at the first probe that succeeded and returned that provider's
\* name, and has returned None exactly when every probe in that order failed.
C7_FirstAvailable ==
    gap.pc = "done" =>
        /\ probes # <<>>
        /\ Len(probes) <= Len(ProbeOrder)
        /\ \A i \in 1..Len(probes) : probes[i].name = ProbeOrder[i]
        /\ \A i \in 1..(Len(probes) - 1) : ~probes[i].ok
        /\ IF probes[Len(probes)].ok
           THEN gap.result = probes[Len(probes)].name
           ELSE Len(probes) = Len(ProbeOrder) /\ gap.result = None

\* the failover case: current fails its probe, the fallback passes, the
\* fallback's name is returned
C7_Witness ==
    /\ gap.pc = "done"
    /\ Len(probes) = 2
    /\ ~probes[1].ok
    /\ probes[2].ok
    /\ fallback_provider # current_provider
    /\ gap.result = fallback_provider

(***************************************************************************)
(* _generate_ai_response on its own, under every provider configuration    *)
(***************************************************************************)

\* the provider argument: what get_available_provider can have returned
Arguments == ({current_provider, fallback_provider} \cup Range(clients)) \ {None}

\* _generate_ai_response(messages, provider, stream) is called
GenCall ==
    \E provider \in Arguments, stream \in BOOLEAN :
        /\ run.pc = "idle"
        /\ run' = [Idle EXCEPT !.pc = "attempt", !.op = "generate", !.provider = provider,
                               !.provider_used = provider, !.stream = stream]
        /\ UNCHANGED <<events, wire, requests, previous>>
        /\ UNCHANGED <<llm_vars, store_vars, persona_vars, proc, aside_vars>>

InitGen ==
    /\ InitProviders
    /\ LLMStart
    /\ StoreEmpty
    /\ NoTasks
    /\ NoSelection
    /\ NoRun
    /\ NoAside

NextGen == GenCall \/ Attempt \/ Chunk \/ Retried \/ GapStep

SpecGen == InitGen /\ [][NextGen]_vars

\* C8: for every pattern of provider failures, _generate_ai_response makes at
\* most 3 generation attempts (the first plus at most 2 retries) and then
\* ends, either without an error event or with exactly one error event, code
\* GENERATION_FAILED, as its last event.
C8_AtMostThreeAttempts ==
    LET errors == {i \in 1..Len(events) : events[i].type = "error"}
    IN  /\ Len(requests) <= 3
        /\ run.retries <= 3
        /\ run.retries = 3 => run.pc = "ended"
        /\ Cardinality(errors) <= 1
        /\ \A i \in errors : events[i].code = "GENERATION_FAILED" /\ i = Len(events)
        /\ errors # {} <=> run.pc = "ended"

\* three completion requests have failed and the generator has given up
C8_Witness ==
    /\ run.pc = "ended"
    /\ Len(requests) = 3
    /\ run.retries = 3
    /\ events[Len(events)].code = "GENERATION_FAILED"

(***************************************************************************)
(* The server: persona and send-message requests handled one after the     *)
(* other                                                                   *)
(***************************************************************************)

\* every user has selected Aanya through POST /characters/1/select
Selected1 ==
    /\ user_character = [u \in Users |-> 1]
    /\ answer = NoAnswer

\* a deployment with one provider: an api key for groq only, groq the
\* primary provider, no fallback provider
OneProvider ==
    /\ clients = <<"groq">>
    /\ current_provider = "groq"
    /\ fallback_provider = None
    /\ LLMStart

Init ==
    /\ OneProvider
    /\ StoreEmpty
    /\ NoTasks
    /\ Selected1
    /\ NoRun
    /\ NoAside

Next ==
    \/ SelectCharacter
    \/ SwitchCharacter
    \/ ClearSelection
    \/ SendMessage
    \/ SseStart
    \/ Resolve
    \/ Conversation
    \/ SaveUser
    \/ Context
    \/ GapStep
    \/ Unexpected
    \/ Selected
    \/ Attempt
    \/ Chunk
    \/ Retried
    \/ SaveAssistant
    \/ Disconnect
    \/ SseEnd
    \/ JsonReturn

Spec == Init /\ [][Next]_vars

\* C1: in every run of process_message, streaming or not, whichever step
\* fails or raises, exactly one terminal event (complete or error) is
\* emitted, and it is the last event the orchestrator emits.
C1_OneTerminalEventLast ==
    LET terminals == {i \in 1..Len(events) : Terminal(events[i])}
    IN  /\ Cardinality(terminals) <= 1
        /\ terminals # {} => terminals = {Len(events)}
        /\ terminals # {} => run.pc \in {"ended", "closed"}
        /\ (run.called /\ run.pc \in {"ended", "closed"} /\ run.cancelled_at = None)
                => terminals # {}

\* a streamed run has passed on content and then ended with the error chunk
\* of the generator
C1_Witness ==
    /\ run.pc = "closed"
    /\ run.stream
    /\ Len(events) >= 3
    /\ events[Len(events) - 1].type = "content"
    /\ events[Len(events)].code = "GENERATION_FAILED"

\* C2: once a complete or error event has been sent to the client, the
\* streaming transport sends no further event of any kind on that stream.
C2_NothingAfterTerminal ==
    \A i \in 1..Len(wire) : Terminal(wire[i]) => i = Len(wire)

\* C3: after any sequence of select-persona, switch-persona, clear-selection
\* and send-message operations, the persona resolved as the current character
\* of a non-premium user never has the premium flag set.
C3_NoPremiumPersonaForFreeUser ==
    (/\ answer.op \in {"send", "chat"}
     /\ answer.character # 0
     /\ subscription_tier(answer.user_id) # "pro")
        => ~is_premium(answer.character)

\* C9: when every configured provider fails its probe, a send-message run
\* emits exactly one event, an error event with code SERVICE_UNAVAILABLE,
\* issues no generation request and persists no assistant turn.
C9_UnavailableEndsTheRun ==
    (/\ run.probed
     /\ run.selection # <<>>
     /\ \A i \in 1..Len(run.selection) : ~run.selection[i].ok)
        => /\ events = <<Event("error", "SERVICE_UNAVAILABLE", None, <<>>)>>
           /\ requests = <<>>
           /\ \A i \in (run.base + 1)..Len(messages) : messages[i].sender_type # "assistant"
           /\ run.pc \in {"ended", "closed"}

\* the only provider has failed its probe after the user turn was saved, and
\* the request is over
C9_Witness ==
    /\ run.pc = "closed"
    /\ run.probed
    /\ run.selection = <<[name |-> "groq", client |-> "groq", ok |-> FALSE]>>
    /\ run.user_message
    /\ previous.code = "SERVICE_UNAVAILABLE"

\* the retry in progress: the request before it was a send-message that ended
\* with SERVICE_UNAVAILABLE, and this one sends the same message again
Retrying ==
    /\ previous.op = "send"
    /\ previous.code = "SERVICE_UNAVAILABLE"
    /\ run.op = "send"
    /\ run.pc # "closed"
    /\ run.user_id = previous.user_id
    /\ run.message_content = previous.message_content

\* C10: if a send-message request ends with SERVICE_UNAVAILABLE and the
\* client then sends the same message again, the conversation holds at most
\* one persisted user turn for that message: when the failed request has
\* persisted the turn, the retry adds no second copy.
C10_RetryAddsNoCopy ==
    LET turn == [conversation_id |-> previous.conversation_id, sender_type |-> "user",
                 content |-> previous.message_content]
    IN  (Retrying /\ run.base > 0 /\ messages[run.base] = turn)
            => \A i \in (run.base + 1)..Len(messages) : messages[i] # turn


\* the rows persisted since the run began, by sender
NewTurns(sender_type) ==
    {i \in (run.base + 1)..Len(messages) :
        /\ messages[i].conversation_id = run.conversation_id
        /\ messages[i].sender_type = sender_type}

\* C11: a send-message run that ends with a complete event and a non-empty
\* generated response persists exactly one new user turn and exactly one new
\* assistant turn in the conversation, and its complete event carries in
\* provider_used the name of a configured provider.
C11_CompleteRunPersistsBothTurns ==
    (/\ run.op = "send"
     /\ run.pc \in {"ended", "closed"}
     /\ Outcome = "complete"
     /\ run.response_content # <<>>)
        => /\ Cardinality(NewTurns("user")) = 1
           /\ Cardinality(NewTurns("assistant")) = 1
           /\ events[Len(events)].provider \in Range(clients)


\* _generate_ai_response has returned without an error chunk
GenerationSucceeded ==
    /\ run.pc \in {"save_assistant", "ended", "closed"}
    /\ requests # <<>>
    /\ \A i \in 1..Len(events) : events[i].code # "GENERATION_FAILED"

RECURSIVE Contents(_)
\* the concatenated content of the content events in es
Contents(es) ==
    IF es = <<>> THEN <<>>
    ELSE (IF Head(es).type = "content" THEN Head(es).content ELSE <<>>) \o Contents(Tail(es))

\* C12: if generation succeeded and writing the user turn or the assistant
\* turn to storage fails, the run still delivers every content event and
\* ends with a complete event, never with an error event.
C12_SaveFailureStillCompletes ==
    (/\ GenerationSucceeded
     /\ run.pc \in {"ended", "closed"}
     /\ run.cancelled_at = None
     /\ \/ ~run.user_message
        \/ strip(run.response_content) # <<>> /\ ~run.assistant_message)
        => /\ Outcome = "complete"
           /\ \A i \in 1..Len(events) : events[i].type # "error"
           /\ Contents(events) = run.response_content

\* a streamed run has delivered hi and ended with complete although neither
\* turn was written
C12_Witness ==
    /\ run.pc = "closed"
    /\ run.stream
    /\ Outcome = "complete"
    /\ Contents(events) = <<"hi", Blank>>
    /\ ~run.user_message
    /\ ~run.assistant_message
    /\ NewTurns("user") = {}
    /\ NewTurns("assistant") = {}


\* C13: if the client disconnects after the provider has delivered the
\* complete response but before the complete event is delivered, the
\* assistant turn for that response is still persisted.
C13_DisconnectKeepsAssistantTurn ==
    (/\ run.pc = "closed"
     /\ run.cancelled_at \in {"stream", "save_assistant"}
     /\ run.retries = 0
     /\ run.completion = <<>>
     /\ strip(run.response_content) # <<>>)
        => \E i \in NewTurns("assistant") :
                messages[i].content = strip(run.response_content)


(***************************************************************************)
(* The event-stream transport on its own: sse_generator of routes/chat.py   *)
(* and sse_generator of utils/sse.py relaying a message stream while time   *)
(* passes                                                                   *)
(***************************************************************************)

\* seconds the clock advances in one step
Step == 5

\* the clock stops here
MaxClock == 40

\* what a message stream yields from first to last
Streams ==
    {<<Event("metadata", None, "groq", <<>>), Event("content", None, "groq", <<"hi">>),
       Event("complete", None, "groq", <<>>)>>,
     <<Event("metadata", None, "groq", <<>>), Event("error", "GENERATION_FAILED", "groq", <<>>)>>,
     <<Event("error", "SERVICE_UNAVAILABLE", None, <<>>)>>}

\* format_heartbeat: the ":ping" comment
Ping == Event("heartbeat", None, None, <<>>)

\* a transport starts to iterate over a message stream; utils/sse.py notes
\* the time in last_heartbeat
SseOpen ==
    \E transport \in {"route", "utils"}, message_stream \in Streams :
        /\ sse.pc = "idle"
        /\ sse' = [SseIdle EXCEPT !.pc = "open", !.transport = transport,
                                  !.message_stream = message_stream,
                                  !.last_heartbeat = clock, !.last_event_at = clock]
        /\ events' = <<>>
        /\ wire' = <<>>
        /\ UNCHANGED <<clock, prompt, journal, run, requests, previous>>
        /\ UNCHANGED <<llm_vars, store_vars, persona_vars, proc>>

\* time passes while the transport waits for the next message
ClockTick ==
    /\ sse.pc = "open"
    /\ clock + Step <= MaxClock
    /\ clock' = clock + Step
    /\ UNCHANGED <<sse, prompt, journal, run_vars>>
    /\ UNCHANGED <<llm_vars, store_vars, persona_vars, proc>>

\* a pass of utils/sse.py finds the heartbeat due
heartbeat_due == sse.transport = "utils" /\ clock - sse.last_heartbeat >= heartbeat_interval

\* the message stream yields its next message: one pass through the body of
\* the async for.  utils/sse.py first sends a heartbeat when one is due and
\* leaves the loop after a complete or error message; the route only relays.
SseMessage ==
    /\ sse.pc = "open"
    /\ sse.message_stream # <<>>
    /\ LET message == Head(sse.message_stream)
       IN  /\ events' = Append(events, message)
           /\ wire' = wire \o (IF heartbeat_due THEN <<Ping>> ELSE <<>>) \o <<message>>
           /\ sse' = [sse EXCEPT !.message_stream = Tail(@),
                                 !.last_heartbeat = IF heartbeat_due THEN clock ELSE @,
                                 !.last_ping_at = IF heartbeat_due THEN clock ELSE @,
                                 !.last_event_at = clock,
                                 !.pc = IF sse.transport = "utils" /\ Terminal(message)
                                        THEN "done" ELSE "open"]
    /\ UNCHANGED <<clock, prompt, journal, run, requests, previous>>
    /\ UNCHANGED <<llm_vars, store_vars, persona_vars, proc>>

\* the message stream is exhausted: the route sends its end marker
SseExhausted ==
    /\ sse.pc = "open"
    /\ sse.message_stream = <<>>
    /\ sse' = [sse EXCEPT !.pc = "done"]
    /\ wire' = IF sse.transport = "route"
               THEN Append(wire, Event("end", None, None, <<>>)) ELSE wire
    /\ UNCHANGED <<clock, prompt, journal, run, events, requests, previous>>
    /\ UNCHANGED <<llm_vars, store_vars, persona_vars, proc>>

InitSse ==
    /\ OneProvider
    /\ StoreEmpty
    /\ NoTasks
    /\ Selected1
    /\ NoRun
    /\ NoAside

NextSse == SseOpen \/ ClockTick \/ SseMessage \/ SseExhausted

SpecSse == InitSse /\ [][NextSse]_vars

\* C14: on an open stream, whenever 15 seconds pass without a real event
\* having been sent, the transport emits a heartbeat marker, including while
\* the orchestrator is producing no event at all: once more than 15 seconds
\* have passed since the last real event, a heartbeat has been sent after it.
C14_HeartbeatEvery15Seconds ==
    (sse.pc = "open" /\ clock - sse.last_event_at > heartbeat_interval)
        => sse.last_ping_at > sse.last_event_at


\* the positions of the metadata events of the run
MetadataEvents == {i \in 1..Len(events) : events[i].type = "metadata"}

\* C15: in every run that reaches generation, exactly one metadata event is
\* emitted, and it is emitted before the first generation request is issued
\* to any provider and before every content event; a run that ends in error
\* before a provider is selected emits no metadata event.
C15_OneMetadataBeforeGeneration ==
    /\ Cardinality(MetadataEvents) <= 1
    /\ (run.provider # None \/ requests # <<>>) => Cardinality(MetadataEvents) = 1
    /\ \A i \in 1..Len(events) :
            events[i].type = "content" => \E j \in MetadataEvents : j < i
    /\ (/\ run.pc \in {"ended", "closed"}
        /\ events # <<>>
        /\ events[Len(events)].type = "error"
        /\ run.provider_used = None) => MetadataEvents = {}

\* a streamed run that issued a generation request and delivered two content
\* events has ended: one metadata event, first of all events
C15_Witness ==
    /\ run.pc = "closed"
    /\ run.stream
    /\ Len(requests) = 1
    /\ Len(events) = 4
    /\ MetadataEvents = {1}
    /\ events[2].type = "content"
    /\ events[3].type = "content"
    /\ Outcome = "complete"


\* C16: a send-message request from a user who has no valid persona selected
\* is rejected with a 400 response carrying code CHARACTER_NOT_SELECTED, in
\* streaming and in non-streaming mode, and never with a 5xx response.
C16_NoPersonaIsRejectedWith400 ==
    (/\ run.op = "send"
     /\ run.pc = "closed"
     /\ run.character_id = 0)
        => /\ run.http = 400
           /\ previous.code = "CHARACTER_NOT_SELECTED"


(***************************************************************************)
(* ChatService.process_message called directly, with or without a          *)
(* character_id                                                            *)
(***************************************************************************)

\* process_message(user_id, message_content, character_id, stream) is
\* called; character_id 0 stands for None.  selected_before notes the cached
\* selection of the user at the time of the call.
ProcessCall ==
    \E user_id \in Users, message_content \in UserTexts, stream \in BOOLEAN :
    \E character_id \in {0} \cup Characters :
        /\ run.pc = "idle"
        /\ run' = [Idle EXCEPT !.pc = "resolve", !.op = "send", !.via = "call",
                               !.user_id = user_id, !.message_content = message_content,
                               !.stream = stream, !.character_id = character_id,
                               !.base = Len(messages),
                               !.selected_before = user_character[user_id]]
        /\ UNCHANGED <<events, wire, requests, previous>>
        /\ UNCHANGED <<llm_vars, store_vars, persona_vars, proc, aside_vars>>

\* the users have selected nothing, or both have selected character 1
InitChat ==
    /\ OneProvider
    /\ StoreEmpty
    /\ NoTasks
    /\ NoSelection \/ Selected1
    /\ NoRun
    /\ NoAside

NextChat ==
    \/ ProcessCall
    \/ Resolve
    \/ Conversation
    \/ SaveUser
    \/ Context
    \/ GapStep
    \/ Unexpected
    \/ Selected
    \/ Attempt
    \/ Chunk
    \/ Retried
    \/ SaveAssistant

SpecChat == InitChat /\ [][NextChat]_vars

\* C17: when process_message is invoked for a user with no persona supplied
\* and none cached or selected, it emits a single error event for the
\* unselected persona, creates no conversation and persists no turn.
C17_NoPersonaNoConversation ==
    (/\ run.via = "call"
     /\ run.called
     /\ run.character_id = 0
     /\ run.selected_before = 0)
        => /\ Len(events) = 1
           /\ events[1].type = "error"
           /\ events[1].code = "CHARACTER_NOT_SELECTED"
           /\ conversations = <<>>
           /\ messages = <<>>


(***************************************************************************)
(* CharacterService.select_character and clear_user_selection called       *)
(* directly                                                                *)
(***************************************************************************)

\* select_character(user_id, character_id, user_is_premium) has returned.
\* run.character is the row its last character query returned (0: none),
\* run.selected_before the selection of the user before the call.
SelectCall ==
    \E user_id \in Users, character_id \in CharacterIds, f \in SelectFlags :
        LET user_is_premium == subscription_tier(user_id) = "pro"
            r == select_character(user_id, character_id, user_is_premium, f)
            refused == r.code \in {"CHARACTER_NOT_FOUND", "PREMIUM_REQUIRED"}
        IN  /\ user_character' = r.sel
            /\ answer' = [op |-> "select", user_id |-> user_id,
                          character |-> r.sel[user_id], code |-> r.code]
            /\ run' = [Idle EXCEPT !.pc = "closed", !.op = "select", !.via = "service",
                                   !.user_id = user_id, !.character_id = character_id,
                                   !.character = get_character_by_id(character_id,
                                                     IF refused THEN f.d2 ELSE f.d3),
                                   !.selected_before = user_character[user_id]]
            /\ UNCHANGED <<events, wire, requests, previous>>
            /\ UNCHANGED <<llm_vars, store_vars, proc, aside_vars>>

\* clear_user_selection(user_id) has returned
ClearCall ==
    \E user_id \in Users, redis_ok \in BOOLEAN :
        /\ user_character' = clear_user_character(user_character, user_id, redis_ok)
        /\ answer' = [op |-> "clear", user_id |-> user_id, character |-> 0,
                      code |-> IF redis_ok THEN "OK" ELSE "CACHE_ERROR"]
        /\ run' = [Idle EXCEPT !.pc = "closed", !.op = "clear", !.via = "service",
                               !.user_id = user_id,
                               !.selected_before = user_character[user_id]]
        /\ UNCHANGED <<events, wire, requests, previous>>
        /\ UNCHANGED <<llm_vars, store_vars, proc, aside_vars>>

InitPersona ==
    /\ OneProvider
    /\ StoreEmpty
    /\ NoTasks
    /\ NoSelection
    /\ NoRun
    /\ NoAside

NextPersona == SelectCall \/ ClearCall

SpecPersona == InitPersona /\ [][NextPersona]_vars

HistoryLimits == {0, 1, 20, 100, 101}
HistoryOffsets == {-1, 0, 1}

\* the checks of get_chat_history on its parameters
valid_parameters(limit, offset) == ~(limit < 1 \/ limit > 100) /\ ~(offset < 0)

\* the request arrives; run.lookups lists what the handler has looked up in
\* storage or cache so far
HistoryRequest ==
    \E user_id \in Users, limit \in HistoryLimits, offset \in HistoryOffsets :
        /\ run.pc = "idle"
        /\ run' = [Idle EXCEPT !.pc = "history", !.op = "history", !.via = "json",
                               !.user_id = user_id, !.limit = limit, !.offset = offset,
                               !.selected_before = user_character[user_id]]
        /\ UNCHANGED <<events, wire, requests, previous>>
        /\ UNCHANGED <<llm_vars, store_vars, persona_vars, proc, aside_vars>>

\* the handler looks up the selected character, then validates limit and
\* offset
HistoryPersona ==
    \E f \in SelectedFlags :
        LET r == get_user_selected_character(run.user_id, f)
            looked == [run EXCEPT !.lookups = Append(@, "persona"),
                                  !.character_id = r.character]
        IN  /\ run.pc = "history"
            /\ user_character' = r.sel
            /\ answer' = [op |-> "history", user_id |-> run.user_id,
                          character |-> r.character, code |-> None]
            /\ run' = IF r.character = 0 \/ ~valid_parameters(run.limit, run.offset)
                      THEN [looked EXCEPT !.pc = "closed", !.http = 400]
                      ELSE [looked EXCEPT !.pc = "history_conversation"]
            /\ UNCHANGED <<events, wire, requests, previous>>
            /\ UNCHANGED <<llm_vars, store_vars, proc, aside_vars>>

\* get_conversation_history: get_or_create_conversation; without a
\* conversation the empty history is returned
HistoryConversation ==
    \E out \in DbOutcomes :
    \E found \in Found(run.user_id, run.character_id) :
        LET r == get_or_create_conversation(run.user_id, run.character_id, found, out)
            looked == [run EXCEPT !.lookups = Append(@, "conversation"),
                                  !.conversation_id = r.id]
        IN  /\ run.pc = "history_conversation"
            /\ conversations' = r.conversations
            /\ run' = IF r.id = 0
                      THEN [looked EXCEPT !.pc = "closed", !.http = 200]
                      ELSE [looked EXCEPT !.pc = "history_messages"]
            /\ UNCHANGED <<messages, cache, last>>
            /\ UNCHANGED <<events, wire, requests, previous>>
            /\ UNCHANGED <<llm_vars, persona_vars, proc, aside_vars>>

\* get_conversation_history: get_message_context(limit) and
\* get_conversation_stats, whose message_count (0 when the query fails) is
\* the total of the answer
HistoryMessages ==
    \E f \in ContextFlags(run.conversation_id, run.limit), stats_ok \in BOOLEAN :
        LET r == get_message_context(run.conversation_id, run.limit, f)
        IN  /\ run.pc = "history_messages"
            /\ cache' = r.cache
            /\ run' = [run EXCEPT !.pc = "closed", !.http = 200,
                                  !.lookups = Append(@, "turns"),
                                  !.context_messages = r.ctx,
                                  !.total = IF stats_ok
                                            THEN conversations[run.conversation_id].message_count
                                            ELSE 0]
            /\ UNCHANGED <<conversations, messages, last>>
            /\ UNCHANGED <<events, wire, requests, previous>>
            /\ UNCHANGED <<llm_vars, persona_vars, proc, aside_vars>>

InitHistory ==
    /\ OneProvider
    /\ StoreEmpty
    /\ NoTasks
    /\ NoSelection \/ Selected1
    /\ NoRun
    /\ NoAside

NextHistory == HistoryRequest \/ HistoryPersona \/ HistoryConversation \/ HistoryMessages

SpecHistory == InitHistory /\ [][NextHistory]_vars

\* C19: a get-history request with a limit outside 1..100 (for example 101)
\* or a negative offset is rejected before the handler performs any persona,
\* conversation or turn lookup in storage or cache.
C19_InvalidHistoryRejectedFirst ==
    (run.op = "history" /\ ~valid_parameters(run.limit, run.offset))
        => /\ run.lookups = <<>>
           /\ run.pc = "closed" => run.http = 400


(***************************************************************************)
(* PromptBuilder: texts are sequences of pieces, a piece has a number of   *)
(* characters                                                              *)
(***************************************************************************)

\* len() of each piece: the message pieces, a long message, the templates of
\* personality caring in CHARACTER_PROMPTS, the texts of
\* _get_fallback_system_prompt, the system text of the minimal structure, the
\* lines an instruction text is made of here (chars of InstructionLines), and
\* the literals and extracted parts the two shortened prompts are put
\* together from
chars ==
    ("hello" :> 5) @@ ("hi" :> 2) @@ (Blank :> 1) @@ ("essay" :> 8000)
    @@ ("template_en" :> 1156) @@ ("template_hi" :> 1174) @@ ("template_ta" :> 1446)
    @@ ("fallback_caring_en" :> 155) @@ ("fallback_caring_hi" :> 155)
    @@ ("fallback_caring_ta" :> 158)
    @@ ("fallback_helpful_en" :> 151) @@ ("fallback_helpful_hi" :> 151)
    @@ ("fallback_helpful_ta" :> 154)
    @@ ("minimal" :> 38)
    @@ ("" :> 0) @@ ("\n" :> 1)
    @@ ("You are Meera, an empathetic and nurturing AI companion." :> 56)
    @@ ("You are long_name, a friend" :> 718)
    @@ ("Your personality traits:" :> 24) @@ ("Communication style:" :> 20)
    @@ ("- Emotionally intelligent" :> 25) @@ ("long_line" :> 2400)
    @@ ("page" :> 2400)
    @@ ("You are " :> 8) @@ (", a " :> 4) @@ ("concise_tail" :> 132)
    @@ ("Assistant" :> 9) @@ ("Meera" :> 5) @@ ("long_name" :> 700)
    @@ ("helpful" :> 7) @@ ("empathetic" :> 10)
    @@ ("\n\nKey traits: " :> 14) @@ ("\n\nStyle: " :> 9)

RECURSIVE len(_)
\* len(text)
len(text) == IF text = <<>> THEN 0 ELSE chars[Head(text)] + len(Tail(text))

\* PromptBuilder.provider_limits
provider_limits ==
    [groq |-> [max_prompt_tokens |-> 150, max_context_tokens |-> 2000],
     openai |-> [max_prompt_tokens |-> 500, max_context_tokens |-> 4000]]

\* the language and provider arguments build_messages is called with
Languages == {"en", "hi", "ta", "fr"}
PromptProviders == {"groq", "openai", "other"}

\* Character.personality_type of the seeded characters
personality_type(character) ==
    IF character = 1 THEN "caring" ELSE IF character = 2 THEN "flirty" ELSE "empathetic"

\* Language(language.lower()), English for an unsupported code
language_enum(language) == IF language \in {"hi", "ta"} THEN language ELSE "en"

\* get_character_prompt_by_character_id: the template, <<>> (None) when the
\* personality type is none of friendly, playful, caring
get_character_prompt_by_character_id(character, language) ==
    IF personality_type(character) = "caring"
    THEN <<[en |-> "template_en", hi |-> "template_hi", ta |-> "template_ta"]
                [language_enum(language)]>>
    ELSE <<>>

\* PromptBuilder._get_fallback_system_prompt
get_fallback_system_prompt(character, language) ==
    IF personality_type(character) = "caring"
    THEN <<[en |-> "fallback_caring_en", hi |-> "fallback_caring_hi",
            ta |-> "fallback_caring_ta"][language_enum(language)]>>
    ELSE <<[en |-> "fallback_helpful_en", hi |-> "fallback_helpful_hi",
            ta |-> "fallback_helpful_ta"][language_enum(language)]>>

\* full_prompt.split('\n'): a text is its lines with "\n" between them; a
\* template is one piece that stands for all of its lines
split_lines(full_prompt) == SelectSeq(full_prompt, LAMBDA piece : piece # "\n")

RECURSIVE join(_, _)
\* separator.join(lines)
join(separator, lines) ==
    IF Len(lines) <= 1 THEN lines
    ELSE <<Head(lines), separator>> \o join(separator, Tail(lines))

\* line.split(',')[0].replace("You are", "").strip() of a line that holds
\* "You are" and a comma: None for a line without them; long_name is a name
\* of 700 characters
extracted_name(line) ==
    IF line \in {"template_en", "You are Meera, an empathetic and nurturing AI companion."}
    THEN "Meera"
    ELSE IF line = "You are long_name, a friend" THEN "long_name"
    ELSE None

\* the first of friendly, playful, caring, witty, empathetic found in
\* line.lower(), None for a line that holds none of them
first_trait(line) ==
    IF line \in {"template_en", "You are Meera, an empathetic and nurturing AI companion."}
    THEN "empathetic"
    ELSE None

\* the section a line of _create_balanced_prompt opens: "personality" in
\* line.lower() or "traits" in it, else "style" or "communication" in it
opened_section(line) ==
    IF line = "Your personality traits:" THEN "personality"
    ELSE IF line = "Communication style:" THEN "style"
    ELSE None

\* PromptBuilder._create_concise_prompt; concise_tail is the text that
\* follows the personality, " AI companion. Respond in the user's language.
\* Keep responses under 100 words unless asked for more. Be warm, helpful, and
\* engaging."
create_concise_prompt(full_prompt) ==
    LET lines == split_lines(full_prompt)
        named == SelectSeq(lines, LAMBDA line : extracted_name(line) # None)
        traited == SelectSeq(lines, LAMBDA line : first_trait(line) # None)
        name == IF named = <<>> THEN "Assistant" ELSE extracted_name(named[1])
        personality == IF traited = <<>> THEN "helpful" ELSE first_trait(traited[1])
    IN  <<"You are ", name, ", a ", personality, "concise_tail">>

RECURSIVE sections_of(_, _, _)
\* the loop of _create_balanced_prompt: the lines kept in first_section,
\* personality_section and style_section
sections_of(lines, current_section, sections) ==
    IF lines = <<>> THEN sections
    ELSE LET line == Head(lines)
             section == IF line # "" /\ opened_section(line) # None
                        THEN opened_section(line) ELSE current_section
             room == [first |-> 3, personality |-> 5, style |-> 3]
         IN  sections_of(Tail(lines), section,
                 IF line # "" /\ Len(sections[section]) < room[section]
                 THEN [sections EXCEPT ![section] = Append(@, line)]
                 ELSE sections)

\* PromptBuilder._create_balanced_prompt
create_balanced_prompt(full_prompt) ==
    LET kept == sections_of(split_lines(full_prompt), "first",
                            [first |-> <<>>, personality |-> <<>>, style |-> <<>>])
    IN  join("\n", kept.first)
        \o (IF kept.personality = <<>> THEN <<>>
            ELSE <<"\n\nKey traits: ">>
                     \o join(Blank, SubSeq(kept.personality, 1, Min({3, Len(kept.personality)}))))
        \o (IF kept.style = <<>> THEN <<>>
            ELSE <<"\n\nStyle: ">>
                     \o join(Blank, SubSeq(kept.style, 1, Min({2, Len(kept.style)}))))

\* PromptBuilder._optimize_for_provider
optimize_for_provider(text, provider) ==
    LET p == IF provider \in DOMAIN provider_limits THEN provider ELSE "groq"
        max_tokens == provider_limits[p].max_prompt_tokens
        estimated_tokens == len(text) \div 4
    IN  IF estimated_tokens <= max_tokens THEN text
        ELSE IF p = "groq" THEN create_concise_prompt(text)
        ELSE create_balanced_prompt(text)

\* PromptBuilder.get_system_prompt; raised: something in its try block raises
get_system_prompt(character, language, provider, raised) ==
    LET full_prompt == get_character_prompt_by_character_id(character, language)
    IN  IF raised THEN get_fallback_system_prompt(character, language)
        ELSE IF full_prompt = <<>>
        THEN optimize_for_provider(get_fallback_system_prompt(character, language), provider)
        ELSE optimize_for_provider(full_prompt, provider)

\* every message is taken, whatever the budget
every_message(context_messages, available_tokens) == Len(context_messages)

RECURSIVE newest_within(_, _)
\* the loop of _optimize_context_for_provider over reversed(context_messages):
\* how many of the newest messages are taken before the budget is exceeded
newest_within(context_messages, available_tokens) ==
    IF context_messages = <<>> THEN 0
    ELSE LET message == context_messages[Len(context_messages)]
             message_tokens == len(message.content) \div 4
         IN  IF message_tokens > available_tokens THEN 0
             ELSE 1 + newest_within(SubSeq(context_messages, 1, Len(context_messages) - 1),
                                    available_tokens - message_tokens)

\* PromptBuilder._optimize_context_for_provider
optimize_context_for_provider(context_messages, provider, system_prompt) ==
    LET limits == IF provider \in DOMAIN provider_limits
                  THEN provider_limits[provider] ELSE provider_limits["groq"]
        system_tokens == len(system_prompt) \div 4
        available_tokens == limits.max_context_tokens - system_tokens - 50
    IN  LastN(context_messages, newest_within(context_messages, available_tokens))

\* PromptBuilder._validate_message_structure passes
valid_message_structure(msgs) ==
    \A i \in 1..Len(msgs) :
        /\ msgs[i].role \in {"system", "user", "assistant"}
        /\ strip(msgs[i].content) # <<>>

\* a minimal structure that leaves the user message out
system_only(character, user_message) ==
    <<[role |-> "system", content |-> <<"minimal">>]>>

\* the minimal safe structure build_messages returns from its except branch
minimal_structure(character, user_message) ==
    <<[role |-> "system", content |-> <<"minimal">>],
      [role |-> "user", content |-> user_message]>>

\* PromptBuilder.build_messages.  raises: "system_prompt" when
\* get_system_prompt fails inside, "build" when a statement of the try block
\* of build_messages raises, "none" otherwise
build_messages(character, context_messages, user_message, language, provider, raises) ==
    LET system_prompt == get_system_prompt(character, language, provider,
                                           raises = "system_prompt")
        optimized_context ==
            optimize_context_for_provider(context_messages, provider, system_prompt)
        built == <<[role |-> "system", content |-> system_prompt]>>
                     \o optimized_context
                     \o <<[role |-> "user", content |-> user_message]>>
    IN  IF raises = "build" \/ ~valid_message_structure(built)
        THEN minimal_structure(character, user_message)
        ELSE built

\* the user messages and the context entries build_messages is called with;
\* an entry with a role the validation refuses and one of white space are
\* among them
PromptTexts == {<<"hello">>, <<Blank>>, <<"essay">>}

ContextEntries ==
    {[role |-> "user", content |-> <<"hello">>],
     [role |-> "assistant", content |-> <<"hi">>],
     [role |-> "assistant", content |-> <<"essay">>],
     [role |-> "assistant", content |-> <<Blank>>],
     [role |-> "tool", content |-> <<"hello">>]}

\* the longest context build_messages is called with
MaxContext == 2

Contexts == UNION {[1..n -> ContextEntries] : n \in 0..MaxContext}

\* build_messages is called with its arguments
InitPrompt ==
    /\ OneProvider
    /\ StoreEmpty
    /\ NoTasks
    /\ Selected1
    /\ NoRun
    /\ NoStream
    /\ NoJournal
    /\ \E character \in Characters, context_messages \in Contexts,
          user_message \in PromptTexts, language \in Languages,
          provider \in PromptProviders, raises \in {"none", "system_prompt", "build"} :
            prompt = [NoBuild EXCEPT !.pc = "called", !.character = character,
                                     !.context_messages = context_messages,
                                     !.user_message = user_message, !.language = language,
                                     !.provider = provider, !.raises = raises]

\* build_messages returns
BuildMessages ==
    /\ prompt.pc = "called"
    /\ prompt' = [prompt EXCEPT !.pc = "returned",
                                !.messages = build_messages(prompt.character,
                                    prompt.context_messages, prompt.user_message,
                                    prompt.language, prompt.provider, prompt.raises)]
    /\ UNCHANGED <<clock, sse, journal, run_vars>>
    /\ UNCHANGED <<llm_vars, store_vars, persona_vars, proc>>

NextPrompt == BuildMessages

SpecPrompt == InitPrompt /\ [][NextPrompt]_vars

\* C20: for every persona, context, language, provider and submitted user
\* message, build_messages returns a list whose first entry has role system
\* and whose last entry is exactly {role: user, content: the submitted
\* message}, also when prompt construction fails internally and the minimal
\* fallback list is returned.
C20_SystemFirstUserLast ==
    prompt.pc = "returned"
        => /\ Len(prompt.messages) >= 2
           /\ prompt.messages[1].role = "system"
           /\ prompt.messages[Len(prompt.messages)]
                  = [role |-> "user", content |-> prompt.user_message]

\* the validation has refused a context entry and build_messages has
\* returned the minimal structure
C20_Witness ==
    /\ prompt.pc = "returned"
    /\ prompt.raises = "none"
    /\ \E i \in 1..Len(prompt.context_messages) : prompt.context_messages[i].role = "tool"
    /\ prompt.messages = minimal_structure(prompt.character, prompt.user_message)


(***************************************************************************)
(* _optimize_for_provider called on its own with an instruction text       *)
(***************************************************************************)

\* the lines of the instruction texts: the system_role line of the caring
\* template, a line whose name part is long, the two headings of a template,
\* a trait line, an empty line and a long line
InstructionLines ==
    {"You are Meera, an empathetic and nurturing AI companion.",
     "You are long_name, a friend",
     "Your personality traits:", "Communication style:",
     "- Emotionally intelligent", "", "long_line"}

\* the most lines of an instruction text
MaxLines == 3

\* the instruction texts: the templates and the texts of up to MaxLines lines
Instructions ==
    {<<"template_en">>, <<"template_hi">>, <<"template_ta">>}
    \cup {join("\n", lines) :
              lines \in UNION {[1..n -> InstructionLines] : n \in 1..MaxLines}}

\* _optimize_for_provider is called with a text and a provider name
InitInstruction ==
    /\ OneProvider
    /\ StoreEmpty
    /\ NoTasks
    /\ Selected1
    /\ NoRun
    /\ NoStream
    /\ NoJournal
    /\ \E instruction \in Instructions, provider \in PromptProviders :
            prompt = [NoBuild EXCEPT !.pc = "optimize", !.instruction = instruction,
                                     !.provider = provider]

\* _optimize_for_provider returns
OptimizeForProvider ==
    /\ prompt.pc = "optimize"
    /\ prompt' = [prompt EXCEPT !.pc = "optimized",
                                !.optimized = optimize_for_provider(prompt.instruction,
                                                                    prompt.provider)]
    /\ UNCHANGED <<clock, sse, journal, run_vars>>
    /\ UNCHANGED <<llm_vars, store_vars, persona_vars, proc>>

NextInstruction == OptimizeForProvider

SpecInstruction == InitInstruction /\ [][NextInstruction]_vars

\* the instruction budget of a provider name, that of groq for a name
\* without limits
instruction_budget(provider) ==
    IF provider \in DOMAIN provider_limits
    THEN provider_limits[provider].max_prompt_tokens
    ELSE provider_limits["groq"].max_prompt_tokens

\* C21: for every instruction text whose estimated size (length // 4)
\* exceeds the provider's instruction budget (150 for groq, 500 for openai),
\* the instruction returned by _optimize_for_provider has an estimated size no
\* greater than that budget.
C21_OptimizedWithinBudget ==
    (/\ prompt.pc = "optimized"
     /\ len(prompt.instruction) \div 4 > instruction_budget(prompt.provider))
        => len(prompt.optimized) \div 4 <= instruction_budget(prompt.provider)


(***************************************************************************)
(* _optimize_context_for_provider called on its own                        *)
(***************************************************************************)

\* the turns of a context: a short one, one of 600 tokens and one of 2000
HistoryEntries ==
    {[role |-> "user", content |-> <<"hello">>],
     [role |-> "assistant", content |-> <<"page">>],
     [role |-> "assistant", content |-> <<"essay">>]}

\* the longest context _optimize_context_for_provider is called with
MaxHistory == 4

\* the system prompts it is called with: a short one, a template and one
\* that uses up the context budget of groq
SystemPrompts == {<<"minimal">>, <<"template_ta">>, <<"essay">>}

\* _optimize_context_for_provider is called with a context, a provider name
\* and a system prompt
InitContext ==
    /\ OneProvider
    /\ StoreEmpty
    /\ NoTasks
    /\ Selected1
    /\ NoRun
    /\ NoStream
    /\ NoJournal
    /\ \E context_messages \in UNION {[1..n -> HistoryEntries] : n \in 0..MaxHistory},
          provider \in PromptProviders, system_prompt \in SystemPrompts :
            prompt = [NoBuild EXCEPT !.pc = "context", !.context_messages = context_messages,
                                     !.provider = provider, !.instruction = system_prompt]

\* _optimize_context_for_provider returns
OptimizeContext ==
    /\ prompt.pc = "context"
    /\ prompt' = [prompt EXCEPT !.pc = "context_returned",
                                !.messages = optimize_context_for_provider(
                                    prompt.context_messages, prompt.provider,
                                    prompt.instruction)]
    /\ UNCHANGED <<clock, sse, journal, run_vars>>
    /\ UNCHANGED <<llm_vars, store_vars, persona_vars, proc>>

NextContext == OptimizeContext

SpecContext == InitContext /\ [][NextContext]_vars

RECURSIVE estimate(_)
\* the summed estimate of turns, length // 4 each
estimate(turns) ==
    IF turns = <<>> THEN 0 ELSE len(Head(turns).content) \div 4 + estimate(Tail(turns))

\* the available budget: context budget minus instruction estimate minus 50
available_budget(provider, system_prompt) ==
    (IF provider = "openai" THEN 4000 ELSE 2000) - len(system_prompt) \div 4 - 50

\* C22: for every context sequence and budget,
\* _optimize_context_for_provider returns the longest suffix of the input
\* turns whose summed estimate (length // 4 each) does not exceed the
\* available budget (context budget minus instruction estimate minus 50), in
\* the input's oldest-first order: with a budget fitting only 3 turns it
\* returns exactly the 3 most recent.
C22_LongestSuffixWithinBudget ==
    prompt.pc = "context_returned" =>
        LET context == prompt.context_messages
            returned == prompt.messages
            available == available_budget(prompt.provider, prompt.instruction)
        IN  /\ Len(returned) <= Len(context)
            /\ returned = LastN(context, Len(returned))
            /\ returned # <<>> => estimate(returned) <= available
            /\ \A n \in 0..Len(context) :
                   estimate(LastN(context, n)) <= available => n <= Len(returned)

\* four turns of which only the three most recent fit the budget have been
\* cut down to those three
C22_Witness ==
    /\ prompt.pc = "context_returned"
    /\ Len(prompt.context_messages) = 4
    /\ estimate(LastN(prompt.context_messages, 3))
           <= available_budget(prompt.provider, prompt.instruction)
    /\ estimate(prompt.context_messages)
           > available_budget(prompt.provider, prompt.instruction)
    /\ prompt.messages = LastN(prompt.context_messages, 3)


(***************************************************************************)
(* The registry: switch_provider and get_client                            *)
(***************************************************************************)

\* C23: switch_provider(name) sets the current provider to name and returns
\* true exactly when name has a configured client; otherwise it returns false
\* and leaves the current provider unchanged; in both cases the fallback
\* provider and the set of clients are unchanged.
C23_SwitchProvider ==
    [][(switched' # switched \/ current_provider' # current_provider)
           => /\ switched'.ok = (switched'.provider \in Range(clients))
              /\ switched'.ok => current_provider' = switched'.provider
              /\ ~switched'.ok => current_provider' = current_provider
              /\ fallback_provider' = fallback_provider
              /\ clients' = clients]_vars

\* a deployment whose primary provider has no client: a switch to a name
\* without a client has been refused and has left it so
C23_Witness ==
    /\ switched = [provider |-> "other", ok |-> FALSE]
    /\ current_provider = "openai"
    /\ clients = <<"groq">>

\* C24: get_client(name) returns the client registered for exactly that
\* provider name (for the current provider when no name is given), and fails
\* with the no-provider-configured error when no provider has a valid
\* credential: every test_connection call has got the client of the name it
\* passed, or the error when there is no client at all.
C24_ClientOfThatName ==
    \A i \in 1..Len(probes) :
        probes[i].client = IF clients = <<>> THEN "ValueError" ELSE probes[i].name


(***************************************************************************)
(* get_or_create_conversation called twice, one call after the other       *)
(***************************************************************************)

\* the (user, persona) pairs of the rows and of the two calls
CallPairs == {<<1, 1>>, <<1, 2>>, <<2, 1>>}

\* the most rows table conversations holds before the first call
MaxRows == 2

\* the tables requests handled one after the other leave behind: at most
\* one row for a pair, here rows without messages yet
SequentialTables ==
    {t \in UNION {[1..n -> {NewConversation(pair[1], pair[2]) : pair \in CallPairs}] :
                      n \in 0..MaxRows} :
        \A i, j \in DOMAIN t : t[i] = t[j] => i = j}

\* the first call has been made with its arguments
InitTwice ==
    /\ LLMQuiet
    /\ NoSelection
    /\ NoRun
    /\ NoAside
    /\ messages = <<>>
    /\ cache = <<>>
    /\ last = NoLast
    /\ conversations \in SequentialTables
    /\ \E pair \in CallPairs :
          proc = [p \in Procs |->
                     IF p = 1 THEN [TaskIdle EXCEPT !.pc = "called", !.user_id = pair[1],
                                                    !.character_id = pair[2]]
                     ELSE TaskIdle]

\* a call of get_or_create_conversation from its SELECT to its return
GetOrCreate(p) ==
    /\ proc[p].pc = "called"
    /\ \E out \in DbOutcomes :
       \E found \in Found(proc[p].user_id, proc[p].character_id) :
          LET r == get_or_create_conversation(proc[p].user_id, proc[p].character_id,
                                              found, out)
          IN  /\ conversations' = r.conversations
              /\ proc' = [proc EXCEPT ![p].pc = "done", ![p].result = r.id]
    /\ UNCHANGED <<messages, cache, last>>
    /\ UNCHANGED not_race_vars

\* the second call is made for the same pair once the first has returned
CallAgain ==
    /\ proc[1].pc = "done"
    /\ proc[2].pc = "idle"
    /\ proc' = [proc EXCEPT ![2] = [proc[1] EXCEPT !.pc = "called", !.result = 0]]
    /\ UNCHANGED store_vars
    /\ UNCHANGED not_race_vars

NextTwice == CallAgain \/ \E p \in Procs : GetOrCreate(p)

SpecTwice == InitTwice /\ [][NextTwice]_vars

RedisDown ==
    {f \in [{"r1", "d1", "r2", "d2", "r3"} -> BOOLEAN] : ~f.r1 /\ ~f.r2 /\ ~f.r3}

\* get_message_context while redis is down
DownGetContext ==
    \E conversation_id \in 1..MaxConversations, limit \in Limits, f \in RedisDown :
        LET r == get_message_context(conversation_id, limit, f)
        IN  /\ cache' = r.cache
            /\ last' = [NoLast EXCEPT !.op = "context", !.conv = conversation_id,
                                      !.limit = limit, !.ctx = r.ctx, !.src = r.src,
                                      !.ok = r.src # "failed",
                                      !.db = IF f.d2 THEN "ok" ELSE "db_fail"]
            /\ UNCHANGED <<conversations, messages>>
            /\ UNCHANGED not_store_vars

\* save_user_message or save_assistant_message while redis is down: no
\* delete_cache call of _clear_conversation_cache reaches redis
DownSave ==
    \E conversation_id \in 1..MaxConversations, sender_type \in {"user", "assistant"},
       out \in DbOutcomes :
    \E content \in IF sender_type = "user" THEN UserTexts ELSE Replies :
        LET r == save_message(conversation_id, sender_type, content, out, {})
        IN  /\ Len(r.messages) <= MaxTurns
            /\ messages' = r.messages
            /\ conversations' = r.conversations
            /\ cache' = r.cache
            /\ last' = [NoLast EXCEPT !.op = "save", !.conv = conversation_id,
                                      !.src = sender_type, !.ctx = content, !.ok = r.saved,
                                      !.db = out]
            /\ UNCHANGED not_store_vars

InitDown == InitStore

NextDown == StoreGetOrCreate \/ DownSave \/ DownGetContext

SpecDown == InitDown /\ [][NextDown]_vars

\* C26: if every cache operation fails, get_message_context still returns
\* the turns read from storage, save_user_message and save_assistant_message
\* still persist the turn and report success, and no cache failure becomes an
\* error of the caller: while the database works, neither operation reports
\* a failure.
C26_CacheFailuresAreSwallowed ==
    /\ (last.op = "context" /\ last.db = "ok")
           => /\ last.ok
              /\ last.src = "storage"
              /\ last.ctx = RecentContext(last.conv, last.limit)
    /\ (last.op = "save" /\ last.db = "ok" /\ last.conv \in DOMAIN conversations)
           => /\ last.ok
              /\ messages # <<>>
              /\ messages[Len(messages)] = [conversation_id |-> last.conv,
                                            sender_type |-> last.src,
                                            content |-> last.ctx]

\* both turns were saved and then read back from storage, with nothing
\* cached
C26_Witness ==
    /\ last.op = "context"
    /\ Len(last.ctx) = 2
    /\ last.src = "storage"
    /\ cache = <<>>


\* C27: a conversation row is created only while handling a send-message
\* request: get-history and switch-persona requests never create a
\* conversation.
C27_OnlySendCreatesConversation ==
    [][Len(conversations') > Len(conversations) => run.op = "send"]_vars


(***************************************************************************)
(* The daily usage count: GET /users/usage before and after a send-message *)
(* request                                                                 *)
(***************************************************************************)

\* QUOTA_LIMITS
QUOTA_LIMITS == [free |-> 20, pro |-> 500]

\* QuotaService.get_date_key, f"quota:{user_id}:{today}"; the requests of a
\* behaviour fall on one day
get_date_key(user_id) == <<"quota", user_id>>

\* QuotaService.get_daily_usage: int(count) of the key, 0 when the key is
\* missing or redis fails
get_daily_usage(user_id, redis_ok) ==
    IF redis_ok /\ get_date_key(user_id) \in DOMAIN cache
    THEN cache[get_date_key(user_id)]
    ELSE 0

\* QuotaService.get_quota_info
get_quota_info(user_id, tier, redis_ok) ==
    LET current_usage == get_daily_usage(user_id, redis_ok)
        limit == IF tier \in DOMAIN QUOTA_LIMITS THEN QUOTA_LIMITS[tier]
                 ELSE QUOTA_LIMITS["free"]
    IN  [tier |-> tier, limit |-> limit, used |-> current_usage,
         remaining |-> IF limit > current_usage THEN limit - current_usage ELSE 0]

\* GET /users/usage: once before the send-message request and once after it;
\* last.ctx lists the "used" values of the answers
GetUserUsage ==
    \E user_id \in Users, redis_ok \in BOOLEAN :
        LET quota_info == get_quota_info(user_id, subscription_tier(user_id), redis_ok)
        IN  /\ run.pc \in {"idle", "closed"}
            /\ last.op \in {"none", "usage"}
            /\ Len(last.ctx) = previous.n
            /\ last.op = "usage" => last.conv = user_id
            /\ last' = [NoLast EXCEPT !.op = "usage", !.conv = user_id,
                                      !.ctx = Append(last.ctx, quota_info.used)]
            /\ UNCHANGED <<conversations, messages, cache>>
            /\ UNCHANGED <<llm_vars, proc, persona_vars, run_vars, aside_vars>>

\* POST /chat/send after the first usage request
SendAfterUsage ==
    /\ last.op = "usage"
    /\ previous.n = 0
    /\ SendMessage

InitQuota == Init

NextQuota ==
    \/ GetUserUsage
    \/ SendAfterUsage
    \/ SseStart
    \/ Resolve
    \/ Conversation
    \/ SaveUser
    \/ Context
    \/ GapStep
    \/ Unexpected
    \/ Selected
    \/ Attempt
    \/ Chunk
    \/ Retried
    \/ SaveAssistant
    \/ Disconnect
    \/ SseEnd
    \/ JsonReturn

SpecQuota == InitQuota /\ [][NextQuota]_vars

\* C28: each send-message request that is processed successfully increases
\* the user's daily usage count: the quota "used" value read after the
\* request is strictly greater than the value read before it.
C28_SendIncreasesUsage ==
    (/\ last.op = "usage"
     /\ Len(last.ctx) = 2
     /\ previous.op = "send"
     /\ previous.code = "complete"
     /\ previous.user_id = last.conv)
        => last.ctx[2] > last.ctx[1]


(***************************************************************************)
(* The selection kept in redis on its own: set_user_character,             *)
(* get_user_character and clear_user_character called one after the other *)
(***************************************************************************)

\* the most calls of a behaviour
MaxCalls == 3

\* a call and its result: ok is whether the call reached redis, result what
\* it returned (0 for None)
Call(op, user_id, character_id, ok, result) ==
    [op |-> op, user_id |-> user_id, character_id |-> character_id, ok |-> ok,
     result |-> result]

\* redis_service.set_user_character(user_id, character_id)
SetUserCharacter ==
    \E user_id \in Users, character_id \in {1, 2}, redis_ok \in BOOLEAN :
        /\ Len(journal) < MaxCalls
        /\ user_character' = set_user_character(user_character, user_id, character_id,
                                                redis_ok)
        /\ journal' = Append(journal, Call("set", user_id, character_id, redis_ok, redis_ok))
        /\ UNCHANGED <<answer, clock, sse, prompt>>
        /\ UNCHANGED <<llm_vars, store_vars, proc, run_vars>>

\* redis_service.get_user_character(user_id)
GetUserCharacter ==
    \E user_id \in Users, redis_ok \in BOOLEAN :
        /\ Len(journal) < MaxCalls
        /\ journal' = Append(journal,
                             Call("get", user_id, 0, redis_ok,
                                  get_user_character(user_character, user_id, redis_ok)))
        /\ UNCHANGED <<user_character, answer, clock, sse, prompt>>
        /\ UNCHANGED <<llm_vars, store_vars, proc, run_vars>>

\* redis_service.clear_user_character(user_id): bool(result) of the delete
ClearUserCharacter ==
    \E user_id \in Users, redis_ok \in BOOLEAN :
        /\ Len(journal) < MaxCalls
        /\ user_character' = clear_user_character(user_character, user_id, redis_ok)
        /\ journal' = Append(journal,
                             Call("clear", user_id, 0, redis_ok,
                                  redis_ok /\ user_character[user_id] # 0))
        /\ UNCHANGED <<answer, clock, sse, prompt>>
        /\ UNCHANGED <<llm_vars, store_vars, proc, run_vars>>

\* the entry of a user reaches the end of the ttl_hours given to setex
SelectionExpires ==
    \E user_id \in Users :
        /\ Len(journal) < MaxCalls
        /\ user_character[user_id] # 0
        /\ user_character' = [user_character EXCEPT ![user_id] = 0]
        /\ journal' = Append(journal, Call("expire", user_id, 0, TRUE, TRUE))
        /\ UNCHANGED <<answer, clock, sse, prompt>>
        /\ UNCHANGED <<llm_vars, store_vars, proc, run_vars>>

InitSelection ==
    /\ OneProvider
    /\ StoreEmpty
    /\ NoTasks
    /\ NoSelection
    /\ NoRun
    /\ NoAside

NextSelection ==
    SetUserCharacter \/ GetUserCharacter \/ ClearUserCharacter \/ SelectionExpires

SpecSelection == InitSelection /\ [][NextSelection]_vars

\* the calls before call i that wrote the entry of its user: a set or a
\* clear that reached redis, or the expiry
WritesBefore(i) ==
    {j \in 1..(i - 1) :
        /\ journal[j].user_id = journal[i].user_id
        /\ journal[j].op \in {"set", "clear", "expire"}
        /\ journal[j].ok}

MaxListings == 2

\* the tables of personas: any of the ids 1 to 3, each premium or not
PersonaTables ==
    {{[id |-> c, is_premium |-> premium[c]] : c \in ids} :
        ids \in SUBSET Characters, premium \in [Characters -> BOOLEAN]}

\* table characters holds some personas; journal[1] is the table
InitListing ==
    /\ OneProvider
    /\ StoreEmpty
    /\ NoTasks
    /\ NoSelection
    /\ NoRun
    /\ NoStream
    /\ NoPrompt
    /\ \E rows \in PersonaTables : journal = <<[op |-> "stored", rows |-> rows]>>

\* CharacterService.get_all_characters(user_is_premium)
GetAllCharacters ==
    \E user_is_premium \in BOOLEAN, db_ok \in BOOLEAN :
        /\ Len(journal) < 1 + MaxListings
        /\ journal' = Append(journal,
                             [op |-> "get_all_characters",
                              user_is_premium |-> user_is_premium, ok |-> db_ok,
                              result |-> select_characters(journal[1].rows,
                                                           user_is_premium, db_ok)])
        /\ UNCHANGED <<clock, sse, prompt>>
        /\ UNCHANGED <<llm_vars, store_vars, proc, persona_vars, run_vars>>

NextListing == GetAllCharacters

SpecListing == InitListing /\ [][NextListing]_vars

Backends == [Range(Registered) -> BOOLEAN]

\* test_connection(provider) while the backends are as journal[1] says: the
\* client get_client hands out is asked
passes_probe(provider) ==
    /\ get_client(provider) # "ValueError"
    /\ journal[1].answers[get_client(provider)]

\* every configuration of the registry; the backends stay as they are while
\* the call lasts
InitFailover ==
    /\ InitProviders
    /\ LLMStart
    /\ StoreEmpty
    /\ NoTasks
    /\ NoSelection
    /\ NoRun
    /\ NoStream
    /\ NoPrompt
    /\ \E answers \in Backends : journal = <<[op |-> "backends", answers |-> answers]>>

\* process_message calls _generate_ai_response with the provider its
\* get_available_provider call returned, one that passed its probe
FailoverCall ==
    /\ GenCall
    /\ passes_probe(run'.provider)

\* a probe of get_available_provider is answered by the backend
FailoverProbe ==
    /\ GapStep
    /\ probes'[Len(probes')].ok = passes_probe(gap.target)

\* a completion request can fail on a backend that answers the test
\* completion (a rejected prompt, a rate limit, a broken stream)
NextFailover == FailoverCall \/ Attempt \/ Chunk \/ Retried \/ FailoverProbe

SpecFailover == InitFailover /\ [][NextFailover]_vars

\* C31: after a generation attempt fails while retries remain, the next
\* attempt targets the fallback provider if the failed provider was the
\* current one, and otherwise another provider that passes its probe; the
\* orchestrator gives up before using all 3 attempts only if no configured
\* provider other than the one that just failed passes its probe.
C31_RetryTargets ==
    [][/\ (run'.retries = run.retries + 1 /\ may_retry(run'.retries))
            => IF run.provider = current_provider /\ fallback_provider # None
               THEN run'.pc = "attempt" /\ run'.provider = fallback_provider
               ELSE run'.pc = "retry"
       /\ (run.pc = "retry" /\ run'.pc = "attempt")
            => /\ run'.provider # run.provider
               /\ passes_probe(run'.provider)
       /\ (run.pc # "ended" /\ run'.pc = "ended" /\ run'.retries < max_retries + 1)
            => \A p \in Range(clients) \ {run.provider} : ~passes_probe(p)
      ]_vars


(***************************************************************************)
(* The prompt of process_message: build_messages, the check against the    *)
(* safety limit and the rebuild with reduced context                       *)
(***************************************************************************)

RECURSIVE total_chars(_)
\* sum(len(msg['content']) for msg in messages)
total_chars(msgs) ==
    IF msgs = <<>> THEN 0 ELSE len(Head(msgs).content) + total_chars(Tail(msgs))

\* PromptBuilder.estimate_total_tokens
estimate_total_tokens(msgs) ==
    LET overhead == Len(msgs) * 15
    IN  (total_chars(msgs) \div 4) + overhead

\* if estimated_tokens > 4000
safety_limit == 4000

\* a reduction that keeps every context message
whole_context(context_messages) == context_messages

\* context_messages[-2:]
reduced_context(context_messages) == LastN(context_messages, 2)

\* the contexts get_message_context(conversation_id, limit=5) returns: up to
\* five turns, short or long
CeilingContexts == UNION {[1..n -> HistoryEntries] : n \in 0..5}

\* process_message has its character, context, message and provider; each of
\* its build_messages calls may raise inside
InitCeiling ==
    /\ OneProvider
    /\ StoreEmpty
    /\ NoTasks
    /\ Selected1
    /\ NoRun
    /\ NoStream
    /\ NoJournal
    /\ \E character \in {1, 2}, context_messages \in CeilingContexts,
          user_message \in {<<"hello">>, <<"essay">>}, language \in {"en", "ta"},
          provider \in PromptProviders, raises \in {"none", "build"},
          raises_again \in {"none", "build"} :
            prompt = [NoBuild EXCEPT !.pc = "called", !.character = character,
                                     !.context_messages = context_messages,
                                     !.user_message = user_message, !.language = language,
                                     !.provider = provider, !.raises = raises,
                                     !.raises_again = raises_again]

\* process_message from build_messages to the call of _generate_ai_response:
\* the list passed on to client.chat.completions.create.  raises and
\* raises_again say whether the first and the second build_messages call
\* raise inside
messages_for_provider(character, context_messages, user_message, language, provider, raises, raises_again) ==
    LET first == build_messages(character, context_messages, user_message, language,
                                provider, raises)
        estimated_tokens == estimate_total_tokens(first)
    IN  IF estimated_tokens > safety_limit
        THEN build_messages(character, reduced_context(context_messages), user_message,
                            language, provider, raises_again)
        ELSE first

\* process_message builds its prompt and goes on to the generation; no
\* statement in between yields an error or returns
BuildForProvider ==
    /\ prompt.pc = "called"
    /\ LET first == build_messages(prompt.character, prompt.context_messages,
                                   prompt.user_message, prompt.language, prompt.provider,
                                   prompt.raises)
       IN  prompt' = [prompt EXCEPT
                         !.pc = "generate",
                         !.first = first,
                         !.builds = IF estimate_total_tokens(first) > safety_limit
                                    THEN 2 ELSE 1,
                         !.messages = messages_for_provider(prompt.character,
                                          prompt.context_messages, prompt.user_message,
                                          prompt.language, prompt.provider, prompt.raises,
                                          prompt.raises_again)]
    /\ UNCHANGED <<clock, sse, journal, run_vars>>
    /\ UNCHANGED <<llm_vars, store_vars, persona_vars, proc>>

NextCeiling == BuildForProvider

SpecCeiling == InitCeiling /\ [][NextCeiling]_vars

\* C32: if the estimated token count of the first prompt exceeds 4000, the
\* prompt is rebuilt exactly once from only the 2 most recent context turns,
\* the rebuilt list (system entry, at most 2 context turns, the new user
\* message) is the one sent to the provider, and the request is not
\* rejected.
C32_RebuiltOnceFromLastTwo ==
    (prompt.pc # "called" /\ estimate_total_tokens(prompt.first) > 4000)
        => LET sent == prompt.messages
               turns == SubSeq(sent, 2, Len(sent) - 1)
               recent == LastN(prompt.context_messages, 2)
           IN  /\ prompt.pc = "generate"
               /\ prompt.builds = 2
               /\ Len(sent) >= 2
               /\ sent[1].role = "system"
               /\ sent[Len(sent)] = [role |-> "user", content |-> prompt.user_message]
               /\ Len(turns) <= 2
               /\ turns = LastN(recent, Len(turns))

\* a first prompt with five context turns was over the limit and the list
\* sent holds the two most recent of them
C32_Witness ==
    /\ prompt.pc = "generate"
    /\ Len(prompt.first) = 7
    /\ estimate_total_tokens(prompt.first) > 4000
    /\ Len(prompt.messages) = 4
    /\ SubSeq(prompt.messages, 2, 3) = LastN(prompt.context_messages, 2)


(***************************************************************************)
(* The turns a send-message request persists, and what it delivers         *)
(***************************************************************************)

\* C33: in every conversation, each persisted assistant turn is preceded by
\* the persisted user turn of the same send-message request: an assistant
\* turn is never persisted for a request whose user turn was not persisted.
C33_AssistantTurnFollowsUserTurn ==
    run.op = "send"
        => \A i \in NewTurns("assistant") :
               \E j \in NewTurns("user") :
                   /\ j < i
                   /\ messages[j].content = run.message_content


\* a deployment with a primary and a fallback provider, both configured
InitFallback ==
    /\ LLMQuiet
    /\ StoreEmpty
    /\ NoTasks
    /\ Selected1
    /\ NoRun
    /\ NoAside

\* one process_message call from its start to its last event
NextFallback ==
    \/ ProcessCall
    \/ Resolve
    \/ Conversation
    \/ SaveUser
    \/ Context
    \/ GapStep
    \/ Unexpected
    \/ Selected
    \/ Attempt
    \/ Chunk
    \/ Retried
    \/ SaveAssistant

SpecFallback == InitFallback /\ [][NextFallback]_vars

\* the generation attempt that yielded event i: the last request issued
\* before it
AttemptOf(i) ==
    Cardinality({k \in 1..Len(requests) : requests[k].after < i})

ContentEvents == {i \in 1..Len(events) : events[i].type = "content"}

\* C34: all content events delivered in one run, and the assistant turn
\* persisted for it, come from a single generation attempt: when an attempt
\* fails after emitting some fragments and a later attempt succeeds, the
\* fragments of the failed attempt are not part of the delivered or persisted
\* response.
C34_ContentFromOneAttempt ==
    run.op = "send"
        => /\ \A i, j \in ContentEvents : AttemptOf(i) = AttemptOf(j)
           /\ \A t \in NewTurns("assistant") :
                  \E k \in 1..Len(requests) :
                      messages[t].content =
                          strip(Contents(SelectSeq(
                              [i \in 1..Len(events) |->
                                  IF AttemptOf(i) = k THEN events[i]
                                  ELSE Event("skipped", None, None, <<>>)],
                              LAMBDA e : e.type = "content")))


\* C35: the provider named in the complete event's provider_used is the
\* provider whose generation attempt produced the delivered content, also
\* when generation failed over to a different provider than the one selected
\* at the start.
C35_ProviderUsedProducedContent ==
    (run.op = "send" /\ Outcome = "complete")
        => /\ \A i \in ContentEvents : events[i].provider = events[Len(events)].provider
           /\ ContentEvents # {}
                  => requests[Len(requests)].provider = events[Len(events)].provider


\* getattr(user, 'preferred_language', 'en') or 'en' of a user who has set
\* no language
user_language == "en"

\* the entry build_messages appends for the submitted message
NewUserEntry == [role |-> "user", content |-> run.message_content]

\* the turns the conversation held before the request that read like the
\* submitted message
EarlierCopies ==
    {j \in 1..run.base :
        /\ messages[j].conversation_id = run.conversation_id
        /\ AsContext(messages[j]) = NewUserEntry}

\* C36: the message list sent to the provider contains the newly submitted
\* user message exactly once, as its final entry, and not additionally as
\* one of the context entries (a context entry that reads like it is an
\* earlier turn of the conversation).
C36_UserMessageOnce ==
    (run.op = "send" /\ requests # <<>>)
        => \A raises \in {"none", "build"}, raises_again \in {"none", "build"} :
               LET sent == messages_for_provider(run.character, run.context_messages,
                               run.message_content, user_language, run.provider_used,
                               raises, raises_again)
                   copies == {i \in 1..(Len(sent) - 1) : sent[i] = NewUserEntry}
               IN  /\ sent[Len(sent)] = NewUserEntry
                   /\ Cardinality(copies) <= Cardinality(EarlierCopies)


(***************************************************************************)
(* The registry: what get_available_provider returns                       *)
(***************************************************************************)

\* C37: get_available_provider returns only the name of a provider that has
\* a client initialized with a valid credential; a provider without a
\* credential is never returned, even when it is the configured current or
\* fallback provider and another provider is healthy.
C37_ReturnsConfiguredProvider ==
    (gap.pc = "done" /\ gap.result # None) => gap.result \in Range(clients)


(***************************************************************************)
(* switch_provider called by another task while a get_available_provider   *)
(* call is suspended in a probe                                            *)
(***************************************************************************)

\* admin_switch_provider runs while the get_available_provider call awaits
\* the completion of a test_connection
ConcurrentSwitch ==
    /\ gap.pc \in {"current", "fallback", "rest"}
    /\ \E provider \in ProviderNames : switch_provider(provider)
    /\ UNCHANGED <<gap, probes>>
    /\ UNCHANGED not_llm_vars

InitSwitch == InitLLM

NextSwitch == StatusCall \/ GapStep \/ StatusReturn \/ ConcurrentSwitch

SpecSwitch == InitSwitch /\ [][NextSwitch]_vars

\* C38: when switch_provider runs concurrently with get_available_provider
\* (interleaved at the suspension point of a probe), the name
\* get_available_provider returns is always a provider whose probe succeeded
\* during that call.
C38_ReturnedNamePassedItsProbe ==
    (gap.pc = "done" /\ gap.result # None)
        => \E i \in 1..Len(probes) : probes[i].name = gap.result /\ probes[i].ok


(***************************************************************************)
(* Request tasks that append a turn to one conversation or read its        *)
(* context at the same time.  Each task has its own session and is         *)
(* suspended at its awaits; redis answers every call.                      *)
(***************************************************************************)

\* conversation 1 holds the user turn of an earlier request
OneTurnStored ==
    /\ conversations = <<increment_message_count(NewConversation(1, 1), 1)>>
    /\ messages = <<[conversation_id |-> 1, sender_type |-> "user", content |-> <<"hello">>]>>
    /\ cache = <<>>
    /\ last = NoLast

\* save_user_message or save_assistant_message is entered: session.add, then
\* session.get(Conversation, conversation_id) is awaited
AppendCall(p) ==
    /\ proc[p].pc = "idle"
    /\ \E sender_type \in {"user", "assistant"} :
          proc' = [proc EXCEPT ![p] =
                      [TaskIdle EXCEPT !.pc = "get", !.op = "save", !.conversation_id = 1,
                                       !.sender_type = sender_type,
                                       !.content = IF sender_type = "user"
                                                   THEN <<"hello">> ELSE <<"hi">>]]
    /\ UNCHANGED store_vars
    /\ UNCHANGED not_race_vars

\* session.get answers with the committed row, which becomes the session's
\* Conversation object; a failure is caught and None is returned
AppendGet(p) ==
    /\ proc[p].pc = "get"
    /\ \E ok \in BOOLEAN :
          proc' = [proc EXCEPT
                      ![p].pc = IF ok THEN "commit" ELSE "done",
                      ![p].message_count =
                          IF ok THEN conversations[proc[p].conversation_id].message_count
                          ELSE 0]
    /\ UNCHANGED store_vars
    /\ UNCHANGED not_race_vars

\* conversation.increment_message_count() on the session's object, then
\* session.commit() inserts the message and writes the object's
\* message_count, and session.refresh(message)
AppendCommit(p) ==
    /\ proc[p].pc = "commit"
    /\ \E out \in DbOutcomes :
          LET id == proc[p].conversation_id
              loaded == [conversations[id] EXCEPT !.message_count = proc[p].message_count]
          IN  IF out = "db_fail"
              THEN /\ proc' = [proc EXCEPT ![p].pc = "done"]
                   /\ UNCHANGED <<conversations, messages>>
              ELSE /\ messages' = Append(messages, [conversation_id |-> id,
                                                    sender_type |-> proc[p].sender_type,
                                                    content |-> proc[p].content])
                   /\ conversations' =
                          [conversations EXCEPT ![id] =
                              increment_message_count(loaded, Len(messages) + 1)]
                   /\ proc' = [proc EXCEPT ![p].pc = IF out = "ok" THEN "clear" ELSE "done"]
    /\ UNCHANGED <<cache, last>>
    /\ UNCHANGED not_race_vars

\* _clear_conversation_cache: the three delete_cache calls (only the key of
\* limit 5 is ever set here), then the message is returned
AppendClear(p) ==
    /\ proc[p].pc = "clear"
    /\ cache' = clear_conversation_cache(cache, proc[p].conversation_id, cache_patterns)
    /\ proc' = [proc EXCEPT ![p].pc = "done", ![p].result = 1]
    /\ UNCHANGED <<conversations, messages, last>>
    /\ UNCHANGED not_race_vars

\* get_message_context(conversation_id, limit=5) is entered and awaits
\* get_cache(cache_key)
ReadCall(p) ==
    /\ proc[p].pc = "idle"
    /\ proc' = [proc EXCEPT ![p] = [TaskIdle EXCEPT !.pc = "get_cache", !.op = "context",
                                                    !.conversation_id = 1, !.limit = 5]]
    /\ UNCHANGED store_vars
    /\ UNCHANGED not_race_vars

\* get_cache answers: a cached context is returned; after a miss the
\* conversation-level key is looked up, which nothing has set, and the SELECT
\* is awaited
ReadCache(p) ==
    /\ proc[p].pc = "get_cache"
    /\ LET cached_context ==
               get_cache(CtxKey(proc[p].conversation_id, proc[p].limit), TRUE)
       IN  proc' = [proc EXCEPT ![p].pc = IF cached_context # <<>> THEN "done" ELSE "select",
                                ![p].context = cached_context,
                                ![p].result = IF cached_context # <<>> THEN 1 ELSE 0]
    /\ UNCHANGED store_vars
    /\ UNCHANGED not_race_vars

\* the SELECT answers with the rows committed so far; set_cache is awaited.
\* A failure is caught and [] is returned.
ReadSelect(p) ==
    /\ proc[p].pc = "select"
    /\ \E ok \in BOOLEAN :
          proc' = [proc EXCEPT
                      ![p].pc = IF ok THEN "set_cache" ELSE "done",
                      ![p].context = IF ok THEN RecentContext(proc[p].conversation_id,
                                                              proc[p].limit)
                                     ELSE <<>>]
    /\ UNCHANGED store_vars
    /\ UNCHANGED not_race_vars

\* set_cache(cache_key, context, ttl_seconds=3600), then the context is
\* returned
ReadSetCache(p) ==
    /\ proc[p].pc = "set_cache"
    /\ LET cache_key == CtxKey(proc[p].conversation_id, proc[p].limit)
       IN  cache' = [k \in DOMAIN cache \cup {cache_key} |->
                        IF k = cache_key THEN proc[p].context ELSE cache[k]]
    /\ proc' = [proc EXCEPT ![p].pc = "done", ![p].result = 1]
    /\ UNCHANGED <<conversations, messages, last>>
    /\ UNCHANGED not_race_vars

\* a get_message_context call made after the tasks have finished
LaterGetContext ==
    /\ \A p \in Procs : proc[p].pc = "done"
    /\ last.op = "none"
    /\ \E f \in ContextFlags(1, 5) :
          LET r == get_message_context(1, 5, f)
          IN  /\ f.r1 /\ f.r2 /\ f.r3
              /\ cache' = r.cache
              /\ last' = [NoLast EXCEPT !.op = "context", !.conv = 1, !.limit = 5,
                                        !.ctx = r.ctx, !.src = r.src,
                                        !.ok = r.src # "failed"]
    /\ UNCHANGED <<conversations, messages, proc>>
    /\ UNCHANGED not_race_vars

InitTasks == OneTurnStored /\ LLMQuiet /\ NoTasks /\ NoSelection /\ NoRun /\ NoAside

NextTasks ==
    \/ \E p \in Procs :
          \/ AppendCall(p) \/ AppendGet(p) \/ AppendCommit(p) \/ AppendClear(p)
          \/ ReadCall(p) \/ ReadCache(p) \/ ReadSelect(p) \/ ReadSetCache(p)
    \/ LaterGetContext

SpecTasks == InitTasks /\ [][NextTasks]_vars

\* C39: when two requests append turns to the same conversation concurrently
\* (each append reads message_count, adds one and commits in its own
\* session), after both finish message_count equals the number of persisted
\* turns: no increment is lost.
C39_NoLostIncrement ==
    (\A p \in Procs : proc[p].pc = "done" /\ proc[p].op = "save")
        => \A id \in DOMAIN conversations :
               conversations[id].message_count = Len(Turns(id))

\* C40: when a get_message_context call that missed the cache interleaves
\* with an append-turn on the same conversation (the reader reads storage,
\* the append commits and deletes the cache key, the reader then writes its
\* result to the cache), no later get_message_context call returns a context
\* that omits the appended turn.
C40_LaterContextHoldsAppendedTurn ==
    (/\ last.op = "context"
     /\ last.src \in {"cache", "storage"}
     /\ \E p, q \in Procs :
           /\ proc[p].op = "context" /\ proc[p].result = 1
           /\ proc[q].op = "save" /\ proc[q].result = 1)
        => \A i \in 2..Len(messages) :
               /\ Len(last.ctx) >= i
               /\ last.ctx[i] = AsContext(messages[i])

====
